---- MODULE Spec2Model ----
(***************************************************************************)
(* A model of the stark database handle (will-rowe/stark): the record      *)
(* store operations Set / Get / Delete over an IPFS gateway, the project   *)
(* snapshot (a UnixFS directory node whose named links are the database),  *)
(* the in-memory key -> CID index, the entry counter and the record        *)
(* objects held by the caller.                                             *)
(*                                                                         *)
(* The IPFS block store is content addressed: a CID is the position of a   *)
(* node in the sequence of distinct nodes ever stored, so equal content    *)
(* has equal CIDs and different content has different CIDs.                *)
(***************************************************************************)
EXTENDS Integers, Sequences, FiniteSets, TLC

\* ------------------------------------------------------------------ bounds
MaxBlocks == 5        \* nodes the block store may hold
MaxClock == 2         \* wall-clock readings 0..MaxClock
MaxHistory == 3       \* comments a caller-held record may carry before Set
MaxUuid == 2          \* records NewRecord may create
MaxFailures == 1      \* gateway calls that may fail
MaxCalls == 4         \* calls the caller makes
MaxThreadCalls == 2   \* calls each of the concurrent threads makes
PubSubBuffer == 1     \* capacity of the client's PubSub channels
RecordBuffer == 1     \* capacity of the record channel Listen returns

Keys == {"k1", "k2"}
Threads == {"t1", "t2"}          \* threads that call the handle concurrently
Slots == {1}                     \* the caller's record variables
Aliases == {"a"}                 \* aliases given to NewRecord by SetAlias
CipherKeys == {1}                \* cipher keys a handle may be opened with
CallerKeys == {1, 2}             \* cipher keys the caller may seal a record with
Nonces == {1, 2}                 \* outcomes of the random AEAD nonce
MaxEntriesOptions == {1, 2}      \* values given to SetKeyLimit

NanosPerSecond == 2   \* nanoseconds in a second, scaled down

\* --------------------------------------------------------------- constants
NoCID == 0            \* the empty CID string ""
NoKey == 0            \* an empty cipher key (len(cipherKey) == 0)

VARIABLES
    blocks,             \* IPFS: the nodes stored, CID i names blocks[i]
    pins,               \* IPFS: the pinned CIDs
    published,          \* IPFS PubSub: the messages sent on the project topic
    clock,              \* the wall clock
    snapshotCID,        \* Db.snapshotCID
    cidLookup,          \* Db.cidLookup
    currentNumEntries,  \* Db.currentNumEntries
    maxEntries,         \* Db.maxEntries
    pinning,            \* Db.pinning
    announcing,         \* Db.announcing
    cipherKey,          \* Db.cipherKey
    recs,               \* the caller's records, by variable
    nextUuid,           \* source of fresh UUIDs
    last,               \* the last API call made and what it returned
    lastSet,            \* per key: what the last accepted Set of it stored
    origin,             \* per caller variable: where its record came from
    failures,           \* the number of gateway calls that have failed
    calls,              \* the number of calls the caller has made
    mutex,              \* Db's lock: who holds it, and in which mode
    pc,                 \* where each thread and task is in its code
    call,               \* per thread: the call it is making, and its record
    pending,            \* per thread: what Set has worked out under the lock
    ret,                \* per thread: what its call returns
    effects,            \* key -> CID: what the Sets that returned nil stored
    start,              \* per thread: effects when its call started
    tcalls,             \* per thread: the calls it has made
    life,               \* Db.ctx, the node and the handle, as teardown leaves them
    client,             \* the IPFS client's PubSub subscription and channels
    listener,           \* the Listen task's variables and its two channels
    reader              \* the caller of Listen: its terminator, its reading

\* The variables of the concurrent threads.
threadVars == <<mutex, pc, call, pending, ret, effects, start, tcalls>>

\* The variables that only concurrent callers and tasks change.
taskVars == <<life, client, listener, reader>>
concVars == <<threadVars, taskVars>>

vars == <<blocks, pins, published, clock, snapshotCID, cidLookup,
          currentNumEntries, maxEntries, pinning, announcing, cipherKey,
          recs, nextUuid, last, lastSet, origin, failures, calls, concVars>>

\* ------------------------------------------------------------- timestamps
\* ptypes.TimestampNow(): seconds and nanoseconds of the wall clock.
TimestampNow(t) ==
    [seconds |-> t \div NanosPerSecond, nanos |-> t % NanosPerSecond]

\* CheckTimeStamp: true iff new is more recent than old.
CheckTimeStamp(old, new) ==
    IF old.seconds > new.seconds THEN FALSE
    ELSE IF old.seconds = new.seconds /\ old.nanos >= new.nanos THEN FALSE
    ELSE TRUE

\* ----------------------------------------------------------------- crypto
\* A key check that lets an empty key pass.
CipherKeyCheckSkipped(key) == "none"

\* CipherKeyCheck: the error for an empty key.
\* A string is a sequence of numbers: a plaintext UUID u is <<u>>; the
\* ciphertext of s under key k with nonce n is <<k, n>> \o s.
CipherKeyCheck(key) == IF key = NoKey THEN "CipherKeyMissing" ELSE "none"

Encrypt(data, key, nonce) ==
    IF CipherKeyCheck(key) # "none"
    THEN [err |-> CipherKeyCheck(key), out |-> <<>>]
    ELSE [err |-> "none", out |-> <<key, nonce>> \o data]

\* gcm.Open authenticates: a text sealed under another key, or no sealed
\* text at all, does not open.
Decrypt(data, key) ==
    IF CipherKeyCheck(key) # "none"
    THEN [err |-> CipherKeyCheck(key), out |-> <<>>]
    ELSE IF Len(data) >= 3 /\ data[1] = key
         THEN [err |-> "none", out |-> SubSeq(data, 3, Len(data))]
         ELSE [err |-> "AuthenticationFailed", out |-> <<>>]

\* ---------------------------------------------------------------- records
NoRecord ==
    [uuid |-> <<>>, previousCID |-> NoCID, history |-> <<>>,
     encrypted |-> FALSE, alias |-> ""]

NewComment(text, prevCID, t) ==
    [timestamp |-> TimestampNow(t), text |-> text, previousCID |-> prevCID]

AddComment(rec, text, t) ==
    [rec EXCEPT !.history = Append(@, NewComment(text, rec.previousCID, t))]

setAlias(rec, alias, t) ==
    IF alias # "" THEN AddComment([rec EXCEPT !.alias = alias], "alias updated.", t)
    ELSE rec

NewRecord(u, alias, t) ==
    setAlias(AddComment([NoRecord EXCEPT !.uuid = <<u>>], "record created.", t),
             alias, t)

GetLastUpdatedTimestamp(rec) == rec.history[Len(rec.history)].timestamp

\* An Encrypt that leaves the record as it is.
RecordEncryptNoop(rec, key, nonce) == [err |-> "none", rec |-> rec]

\* Record.Encrypt: [err, rec]
RecordEncrypt(rec, key, nonce) ==
    IF rec.encrypted THEN [err |-> "Encrypted", rec |-> rec]
    ELSE LET e == Encrypt(rec.uuid, key, nonce) IN
         IF e.err # "none" THEN [err |-> e.err, rec |-> rec]
         ELSE [err |-> "none",
               rec |-> [rec EXCEPT !.uuid = e.out, !.encrypted = TRUE]]

\* A Decrypt that leaves the sealed fields as they are.
RecordDecryptNoop(rec, key) == [err |-> "none", rec |-> rec]

\* Record.Decrypt: [err, rec]
RecordDecrypt(rec, key) ==
    IF ~rec.encrypted THEN [err |-> "none", rec |-> rec]
    ELSE LET d == Decrypt(rec.uuid, key) IN
         IF d.err # "none" THEN [err |-> d.err, rec |-> rec]
         ELSE [err |-> "none",
               rec |-> [rec EXCEPT !.uuid = d.out, !.encrypted = FALSE]]

\* json.Marshal(record): the JSON document, as the tuple of its members.
MarshalRecord(rec) ==
    <<rec.uuid, rec.previousCID, rec.history, rec.encrypted, rec.alias>>

\* jsonpb Unmarshal of a stored document.
UnmarshalRecord(data) ==
    [uuid |-> data[1], previousCID |-> data[2], history |-> data[3],
     encrypted |-> data[4], alias |-> data[5]]

\* ------------------------------------------------------------ IPFS gateway
NoLinks == [k \in {} |-> NoCID]

CborNode(data) == [type |-> "cbor", data |-> data, links |-> NoLinks]
DirNode(links) == [type |-> "dir", data |-> <<>>, links |-> links]

\* The CID a node has in store b: its position, or the next free one.
CidOf(b, node) ==
    IF \E i \in 1..Len(b) : b[i] = node
    THEN CHOOSE i \in 1..Len(b) : b[i] = node
    ELSE Len(b) + 1

\* Storing a node: nothing changes if the content is already there.
Store(b, node) ==
    IF \E i \in 1..Len(b) : b[i] = node THEN b ELSE Append(b, node)

\* NewDagNode: an empty unixfs directory.
NewDagNode(b) == [cid |-> CidOf(b, DirNode(NoLinks)), blocks |-> Store(b, DirNode(NoLinks))]

\* The directory with link name -> child set (created or replaced).
WithLink(links, name, child) ==
    [k \in (DOMAIN links) \cup {name} |-> IF k = name THEN child ELSE links[k]]

\* A removal that keeps the link.
WithoutLinkKeeps(links, name) == links

\* The directory without the link name.
WithoutLink(links, name) ==
    [k \in (DOMAIN links) \ {name} |-> links[k]]

\* AddLink(baseCID, childCID, linkLabel): [cid, blocks]
AddLink(b, baseCID, childCID, name) ==
    LET node == DirNode(WithLink(b[baseCID].links, name, childCID)) IN
    [cid |-> CidOf(b, node), blocks |-> Store(b, node)]

\* RmLink(baseCID, linkLabel): [err, cid, blocks]; a missing link is an error.
RmLink(b, baseCID, name) ==
    IF name \notin DOMAIN b[baseCID].links
    THEN [err |-> "SnapshotUpdate", cid |-> NoCID, blocks |-> b]
    ELSE LET node == DirNode(WithoutLink(b[baseCID].links, name)) IN
         [err |-> "none", cid |-> CidOf(b, node), blocks |-> Store(b, node)]

\* Object().Links(path): the named links of a node.
Links(b, cid) == b[cid].links

\* GetNodeLinks(nodeCID): [err, links]; a node that cannot be fetched is an
\* error, and so is a node without links.
GetNodeLinks(b, cid) ==
    IF cid \notin 1..Len(b) THEN [err |-> "Unreachable", links |-> NoLinks]
    ELSE IF Links(b, cid) = NoLinks THEN [err |-> "NoLinks", links |-> NoLinks]
    ELSE [err |-> "none", links |-> Links(b, cid)]

\* DagPut(data, pinning): [cid, blocks, pins]
DagPut(b, p, data, pin) ==
    LET cid == CidOf(b, CborNode(data)) IN
    [cid |-> cid, blocks |-> Store(b, CborNode(data)),
     pins |-> IF pin THEN p \cup {cid} ELSE p]

\* Unpin(cid)
Unpin(p, cid) == p \ {cid}

\* ------------------------------------------------------------ record store
\* errors.Wrap(err, ErrEncrypted.Error()): the error of a failed decryption
\* under the message of ErrEncrypted.
WrapEncrypted(err) ==
    CASE err = "CipherKeyMissing" -> "Encrypted: CipherKeyMissing"
      [] err = "AuthenticationFailed" -> "Encrypted: AuthenticationFailed"
      [] OTHER -> "Encrypted"

\* errors.Cause(err): the error under the wrapping, if there is one.
Cause(err) ==
    CASE err = "Encrypted: CipherKeyMissing" -> "CipherKeyMissing"
      [] err = "Encrypted: AuthenticationFailed" -> "AuthenticationFailed"
      [] OTHER -> err

\* getRecordFromCID: [err, rec]; dagGetOk is the outcome of the gateway call.
getRecordFromCID(b, key, cid, dagGetOk) ==
    IF cid = NoCID THEN [err |-> "NoCID", rec |-> NoRecord]
    ELSE IF ~dagGetOk THEN [err |-> "DagGetFailed", rec |-> NoRecord]
    ELSE IF b[cid].type # "cbor" THEN [err |-> "NodeFormat", rec |-> NoRecord]
    ELSE LET d == RecordDecrypt(UnmarshalRecord(b[cid].data), key) IN
         IF d.err # "none" THEN [err |-> WrapEncrypted(d.err), rec |-> NoRecord]
         ELSE [err |-> "none", rec |-> [d.rec EXCEPT !.previousCID = cid]]

\* An announcement that the gateway accepts and nobody receives.
publishAnnouncementLost(topic, cid) == topic

\* publishAnnouncement([]byte(cid)): SendMessage puts one message, the CID,
\* on the topic that has the project's name. topic is the sequence of the
\* messages sent on it so far.
publishAnnouncement(topic, cid) == Append(topic, cid)

\* A max entry check that fires one entry late.
MaxEntriesPassed(count, max) == count > max

\* The max entry check made on entry to Set.
MaxEntriesReached(count, max) == count = max

\* Versioning checks that let every record pass.
CheckExistingSkipped(existingRecord, existingCID, record) == "none"

\* The versioning checks Set makes on a key that is already in use.
CheckExisting(existingRecord, existingCID, record) ==
    IF existingRecord.uuid # record.uuid THEN "AttemptedOverwrite"
    ELSE IF existingCID # record.previousCID THEN "RecordHistory"
    ELSE IF ~CheckTimeStamp(GetLastUpdatedTimestamp(existingRecord),
                            GetLastUpdatedTimestamp(record))
         THEN "AttemptedUpdate"
    ELSE "none"

\* Db.cidLookup[key] = cid
KeystoreSet(lookup, key, cid) ==
    [k \in (DOMAIN lookup) \cup {key} |-> IF k = key THEN cid ELSE lookup[k]]

\* delete(Db.cidLookup, key)
KeystoreDelete(lookup, key) ==
    [k \in (DOMAIN lookup) \ {key} |-> lookup[k]]

\* Db.currentNumEntries++ at the end of Set
CountAfterSet(count) == count + 1

\* Db.currentNumEntries-- at the end of Delete
CountAfterDelete(count) == count - 1

\* A return that leaves the store alone and the record with the comment of
\* a Set that writes its comment before it checks the record.
UntouchedButCommented(err, rec, gw) ==
    [err |-> err,
     rec |-> AddComment(rec, "Set: adding record to IPFS.", clock),
     gw |-> gw, cid |-> NoCID,
     blocks |-> blocks, pins |-> pins, published |-> published,
     snapshotCID |-> snapshotCID, cidLookup |-> cidLookup,
     count |-> currentNumEntries]

\* What a call leaves behind when it returns before touching the store.
Untouched(err, rec, gw) ==
    [err |-> err, rec |-> rec, gw |-> gw, cid |-> NoCID,
     blocks |-> blocks, pins |-> pins, published |-> published,
     snapshotCID |-> snapshotCID, cidLookup |-> cidLookup,
     count |-> currentNumEntries]

\* Set(key, record). now is the wall clock as Set reads it, fail names the
\* gateway call that fails, if it is reached, and nonce is the random nonce
\* drawn if the record is encrypted.
\* The result carries the caller's record as Set leaves it.
SetResult(key, record, now, fail, nonce) ==
    IF MaxEntriesReached(currentNumEntries, maxEntries)
    THEN Untouched("MaxEntriesExceeded", record, FALSE)
    ELSE
    LET exists == key \in DOMAIN cidLookup
        existing == IF exists
                    THEN getRecordFromCID(blocks, cipherKey, cidLookup[key],
                                          fail # "DagGet")
                    ELSE [err |-> "none", rec |-> NoRecord]
        check == IF exists /\ existing.err = "none"
                 THEN CheckExisting(existing.rec, cidLookup[key], record)
                 ELSE "none"
    IN
    IF existing.err # "none"
    THEN Untouched(existing.err, record, existing.err = "DagGetFailed")
    ELSE IF check # "none" THEN Untouched(check, record, FALSE)
    ELSE
    LET r1 == IF exists THEN AddComment(record, "Set: updating record.", now)
              ELSE record
        r2 == AddComment(r1, "Set: adding record to IPFS.", now)
        enc == IF cipherKey # NoKey /\ ~r2.encrypted
               THEN RecordEncrypt(r2, cipherKey, nonce)
               ELSE [err |-> "none", rec |-> r2]
    IN
    IF enc.err # "none" THEN Untouched(enc.err, r2, FALSE)
    ELSE IF fail = "DagPut" THEN Untouched("DagPutFailed", enc.rec, TRUE)
    ELSE
    LET put == DagPut(blocks, pins, MarshalRecord(enc.rec), pinning)
        stored == [Untouched("none", enc.rec, FALSE) EXCEPT
                       !.cid = put.cid, !.blocks = put.blocks, !.pins = put.pins]
    IN
    IF fail = "AddLink"
    THEN [stored EXCEPT !.err = "SnapshotUpdate", !.gw = TRUE]
    ELSE
    LET link == AddLink(put.blocks, snapshotCID, put.cid, key)
        linked == [stored EXCEPT !.blocks = link.blocks, !.snapshotCID = link.cid]
    IN
    IF announcing /\ fail = "Publish"
    THEN [linked EXCEPT !.err = "PublishFailed", !.gw = TRUE]
    ELSE [linked EXCEPT
              !.published = IF announcing
                             THEN publishAnnouncement(@, put.cid) ELSE @,
              !.cidLookup = KeystoreSet(cidLookup, key, put.cid),
              !.count = CountAfterSet(currentNumEntries)]

\* Get(key): [err, rec, gw]
GetResult(key, fail) ==
    IF key \notin DOMAIN cidLookup
    THEN [err |-> "NotFound", rec |-> NoRecord, gw |-> FALSE]
    ELSE LET g == getRecordFromCID(blocks, cipherKey, cidLookup[key],
                                   fail # "DagGet")
         IN [err |-> g.err, rec |-> g.rec, gw |-> g.err = "DagGetFailed"]

\* Delete(key). fail names the gateway call that fails, if it is reached.
DeleteResult(key, fail) ==
    IF key \notin DOMAIN cidLookup THEN Untouched("NotFound", NoRecord, FALSE)
    ELSE
    LET cid == cidLookup[key]
        rm == RmLink(blocks, snapshotCID, key)
    IN
    IF fail = "RmLink" THEN Untouched("SnapshotUpdate", NoRecord, TRUE)
    ELSE IF rm.err # "none" THEN Untouched("SnapshotUpdate", NoRecord, FALSE)
    ELSE
    LET unlinked == [Untouched("none", NoRecord, FALSE) EXCEPT
                         !.cid = cid, !.blocks = rm.blocks,
                         !.snapshotCID = rm.cid]
    IN
    IF fail = "Unpin"
    THEN [unlinked EXCEPT !.err = "UnpinFailed", !.gw = TRUE]
    ELSE [unlinked EXCEPT
              !.pins = Unpin(pins, cid),
              !.cidLookup = KeystoreDelete(cidLookup, key),
              !.count = CountAfterDelete(currentNumEntries)]

\* GetNumEntries()
GetNumEntries == currentNumEntries

\* GetSnapshot(): "" for a database without entries
GetSnapshot == IF currentNumEntries = 0 THEN NoCID ELSE snapshotCID

\* ------------------------------------------------------------ the caller
NoCall ==
    [op |-> "none", key |-> "", slot |-> 0, err |-> "none", gw |-> FALSE,
     cid |-> NoCID, repeat |-> FALSE, chained |-> FALSE,
     keyKnown |-> FALSE, wasFull |-> FALSE, sameUuid |-> FALSE,
     prevOk |-> FALSE, newer |-> FALSE, versionOk |-> FALSE]

NoOrigin == [kind |-> "none", key |-> "", cid |-> NoCID]
NoLastSet == [cid |-> NoCID, uuid |-> <<>>, alias |-> ""]

\* The plaintext under a string: a sealed text is <<key, nonce>> \o text.
PlainOf(s) == IF Len(s) >= 3 THEN SubSeq(s, 3, Len(s)) ELSE s

\* The record stored under a key of the index, as it lies in the store.
StoredRecord(key) == UnmarshalRecord(blocks[cidLookup[key]].data)

\* The UUID of the record stored under a key, as the handle reads it.
StoredUuid(key) == RecordDecrypt(StoredRecord(key), cipherKey).rec.uuid

\* The call being made and what holds on entry to it: whether the key is
\* in the index, whether the database is full, and, for a record offered
\* for a key in use, whether it has the stored record's UUID, whether its
\* previous CID is the indexed one, whether its last timestamp is later
\* than the stored record's, and whether it is all three: a newer version
\* of exactly the stored one.
Call(op, key, slot) ==
    LET known == key \in DOMAIN cidLookup
        offered == known /\ slot \in Slots /\ recs[slot] # NoRecord
    IN
    [NoCall EXCEPT
        !.op = op, !.key = key, !.slot = slot,
        !.keyKnown = known,
        !.wasFull = (currentNumEntries = maxEntries),
        !.sameUuid = (offered /\ StoredUuid(key) = recs[slot].uuid),
        !.prevOk = (offered /\ recs[slot].previousCID = cidLookup[key]),
        !.newer = (offered
            /\ CheckTimeStamp(GetLastUpdatedTimestamp(StoredRecord(key)),
                              GetLastUpdatedTimestamp(recs[slot]))),
        !.versionOk = (offered
            /\ StoredUuid(key) = recs[slot].uuid
            /\ recs[slot].previousCID = cidLookup[key]
            /\ CheckTimeStamp(GetLastUpdatedTimestamp(StoredRecord(key)),
                              GetLastUpdatedTimestamp(recs[slot])))]

\* ------------------------------------------------------- the handle's lock
\* sync.RWMutex: the holder of the exclusive lock and the holders of the
\* shared lock.
Unlocked == [writer |-> "none", readers |-> {}]

\* A Lock() that never waits.
LockNeverWaits(m) == TRUE

\* Lock() returns when nobody holds the lock in either mode.
LockFree(m) == m.writer = "none" /\ m.readers = {}

\* Lock() by a thread or task.
Locked(who) == [writer |-> who, readers |-> {}]

\* The operations that change nothing.
ReadOnlyOps == {"Get", "GetSnapshot"}

\* The tasks beside the calling threads.
Tasks == {"listen", "sub", "teardown", "listen2", "sub2"}

\* The record a thread creates before its first call.
ThreadRecord(t) == NewRecord(IF t = "t1" THEN 2 ELSE 3, "a", 0)

NoPending ==
    [err |-> "none", rec |-> NoRecord, gw |-> FALSE, cid |-> NoCID,
     blocks |-> <<>>, pins |-> {}, published |-> <<>>,
     snapshotCID |-> NoCID, cidLookup |-> NoLinks, count |-> 0]

NoReturn == [err |-> "none", cid |-> NoCID]

\* No thread has called the handle yet.
ThreadsIdle ==
    /\ mutex = Unlocked
    /\ pc = [t \in Threads \cup Tasks |-> "idle"]
    /\ call = [t \in Threads |->
                  [op |-> "none", key |-> "", rec |-> ThreadRecord(t)]]
    /\ pending = [t \in Threads |-> NoPending]
    /\ ret = [t \in Threads |-> NoReturn]
    /\ effects = cidLookup
    /\ start = [t \in Threads |-> NoLinks]
    /\ tcalls = [t \in Threads |-> 0]

\* The handle is live, nothing is subscribed and Listen has not been called.
TasksIdle ==
    /\ life = [ctxDone |-> FALSE, online |-> TRUE, zeroed |-> FALSE,
               err |-> "none"]
    /\ client = [pubsubMessages |-> <<>>, pubsubErrors |-> <<>>,
                 pubsubStop |-> FALSE, pubsubStopped |-> FALSE,
                 pubsubSub |-> FALSE, message |-> NoCID, cursor |-> 0,
                 subscriptions |-> 0, deferred |-> 0, closed |-> FALSE,
                 misuse |-> "none"]
    /\ listener = [cid |-> NoCID, err |-> "none", cidTracker |-> {},
                   subscription |-> 0,
                   rec |-> NoRecord, recChan |-> <<>>, recClosed |-> FALSE,
                   errClosed |-> FALSE, erred |-> FALSE, sent |-> <<>>]
    /\ reader = [terminator |-> FALSE, reading |-> TRUE]

\* What OpenDB is given: no snapshot (a new database), or, through
\* SetSnapshotCID, the snapshot an earlier session of the same configuration
\* left after one Set of a new record under "k1".
Projects == {"new", "used"}

\* The record the earlier session stored, as it lies in the store.
EarlierRecord(key) ==
    LET r == AddComment(NewRecord(1, "a", 0), "Set: adding record to IPFS.", 0)
    IN IF key # NoKey THEN RecordEncrypt(r, key, 1).rec ELSE r

\* What the earlier session left: the store, the pins, the snapshot.
EarlierSession(key) ==
    LET dir == NewDagNode(<<>>)
        put == DagPut(dir.blocks, {}, MarshalRecord(EarlierRecord(key)), TRUE)
        link == AddLink(put.blocks, dir.cid, put.cid, "k1")
    IN [blocks |-> link.blocks, pins |-> put.pins,
        snapshotCID |-> link.cid, nextUuid |-> 2]

\* OpenDB, from the snapshot on: [err, blocks, snapshotCID, cidLookup,
\* count]. Without a snapshot CID an empty directory node is the first
\* snapshot; with one, the index is filled from the links of its node. The
\* counter is set from the index.
OpenDB(b, snapshot) ==
    IF snapshot = NoCID
    THEN [err |-> "none", blocks |-> NewDagNode(b).blocks,
          snapshotCID |-> NewDagNode(b).cid, cidLookup |-> NoLinks,
          count |-> 0]
    ELSE LET l == GetNodeLinks(b, snapshot) IN
         IF l.err # "none"
         THEN [err |-> "InvalidSnapshot", blocks |-> b, snapshotCID |-> NoCID,
               cidLookup |-> NoLinks, count |-> 0]
         ELSE [err |-> "none", blocks |-> b, snapshotCID |-> snapshot,
               cidLookup |-> l.links, count |-> Cardinality(DOMAIN l.links)]

\* The handle OpenDB returns for the project.
Init ==
    /\ maxEntries \in MaxEntriesOptions
    /\ pinning = TRUE
    /\ announcing \in BOOLEAN
    /\ cipherKey \in {NoKey} \cup CipherKeys
    /\ \E project \in Projects :
          LET p == IF project = "new"
                   THEN [blocks |-> <<>>, pins |-> {},
                         snapshotCID |-> NoCID, nextUuid |-> 1]
                   ELSE EarlierSession(cipherKey)
              db == OpenDB(p.blocks, p.snapshotCID)
          IN /\ db.err = "none"
             /\ blocks = db.blocks
             /\ pins = p.pins
             /\ snapshotCID = db.snapshotCID
             /\ cidLookup = db.cidLookup
             /\ currentNumEntries = db.count
             /\ nextUuid = p.nextUuid
    /\ published = <<>>
    /\ clock = 0
    /\ recs = [s \in Slots |-> NoRecord]
    /\ last = NoCall
    /\ lastSet = [k \in Keys |-> NoLastSet]
    /\ origin = [s \in Slots |-> NoOrigin]
    /\ failures = 0
    /\ calls = 0
    /\ ThreadsIdle
    /\ TasksIdle

\* The time that passes before the caller edits a record.
Ticks == {t \in {0, 1} : clock + t <= MaxClock}

\* The caller makes one more call.
OneMoreCall == calls < MaxCalls /\ calls' = calls + 1

\* rec, _ := NewRecord(SetAlias(alias))
CallNewRecord(s, alias) ==
    /\ OneMoreCall
    /\ nextUuid <= MaxUuid
    /\ recs' = [recs EXCEPT ![s] = NewRecord(nextUuid, alias, clock)]
    /\ nextUuid' = nextUuid + 1
    /\ origin' = [origin EXCEPT ![s] = [NoOrigin EXCEPT !.kind = "new"]]
    /\ UNCHANGED <<blocks, pins, published, clock, snapshotCID, cidLookup,
                   currentNumEntries, maxEntries, pinning, announcing,
                   cipherKey, last, lastSet, failures>>
    /\ UNCHANGED concVars

\* rec.AddComment(text) by the caller
CallAddComment(s, tick) ==
    /\ OneMoreCall
    /\ recs[s] # NoRecord
    /\ Len(recs[s].history) <= MaxHistory
    /\ clock' = clock + tick
    /\ recs' = [recs EXCEPT ![s] = AddComment(@, "edited.", clock')]
    /\ origin' = [origin EXCEPT ![s] =
           IF @.kind = "get" /\ CheckTimeStamp(GetLastUpdatedTimestamp(recs[s]),
                                               TimestampNow(clock'))
           THEN [@ EXCEPT !.kind = "getAndComment"]
           ELSE [@ EXCEPT !.kind = "edited"]]
    /\ UNCHANGED <<blocks, pins, published, snapshotCID, cidLookup,
                   currentNumEntries, maxEntries, pinning, announcing,
                   cipherKey, nextUuid, last, lastSet, failures>>
    /\ UNCHANGED concVars

\* err := rec.Encrypt(key) by the caller
CallEncrypt(s, key, nonce) ==
    /\ OneMoreCall
    /\ recs[s] # NoRecord
    /\ recs' = [recs EXCEPT ![s] = RecordEncrypt(@, key, nonce).rec]
    /\ origin' = [origin EXCEPT ![s] = [@ EXCEPT !.kind = "edited"]]
    /\ UNCHANGED <<blocks, pins, published, clock, snapshotCID, cidLookup,
                   currentNumEntries, maxEntries, pinning, announcing,
                   cipherKey, nextUuid, last, lastSet, failures>>
    /\ UNCHANGED concVars

\* A gateway call may fail while the failures allowed are not used up.
MayFail(fail) == fail = "none" \/ failures < MaxFailures

\* err := db.Set(key, rec)
CallSet(key, s, fail, nonce) ==
    /\ OneMoreCall
    /\ MayFail(fail)
    /\ recs[s] # NoRecord
    /\ Len(blocks) + 2 <= MaxBlocks
    /\ Len(recs[s].history) <= MaxHistory + 1
    /\ LET r == SetResult(key, recs[s], clock, fail, nonce) IN
       /\ blocks' = r.blocks
       /\ pins' = r.pins
       /\ published' = r.published
       /\ snapshotCID' = r.snapshotCID
       /\ cidLookup' = r.cidLookup
       /\ currentNumEntries' = r.count
       /\ recs' = [recs EXCEPT ![s] = r.rec]
       /\ failures' = failures + (IF r.gw THEN 1 ELSE 0)
       /\ lastSet' = IF r.err = "none"
                     THEN [lastSet EXCEPT ![key] =
                              [cid |-> r.cid, uuid |-> PlainOf(recs[s].uuid),
                               alias |-> recs[s].alias]]
                     ELSE lastSet
       /\ origin' = [origin EXCEPT ![s] = [NoOrigin EXCEPT !.kind = "set"]]
       /\ last' = [Call("Set", key, s) EXCEPT
                       !.err = r.err, !.gw = r.gw, !.cid = r.cid,
                       !.repeat = (last.op = "Set" /\ last.err = "none"
                                   /\ last.key = key /\ last.slot = s
                                   /\ origin[s].kind = "set"),
                       !.chained = (origin[s].kind = "getAndComment"
                                    /\ origin[s].key = key
                                    /\ key \in DOMAIN cidLookup
                                    /\ cidLookup[key] = origin[s].cid)]
    /\ UNCHANGED <<clock, maxEntries, pinning, announcing, cipherKey, nextUuid>>
    /\ UNCHANGED concVars

\* rec, err := db.Get(key)
CallGet(key, s, fail) ==
    /\ OneMoreCall
    /\ MayFail(fail)
    /\ LET r == GetResult(key, fail) IN
       /\ recs' = IF r.err = "none" THEN [recs EXCEPT ![s] = r.rec] ELSE recs
       /\ origin' = IF r.err = "none"
                    THEN [origin EXCEPT ![s] =
                             [kind |-> "get", key |-> key, cid |-> cidLookup[key]]]
                    ELSE origin
       /\ failures' = failures + (IF r.gw THEN 1 ELSE 0)
       /\ last' = [Call("Get", key, s) EXCEPT
                       !.err = r.err, !.gw = r.gw,
                       !.cid = IF r.err = "none" THEN cidLookup[key] ELSE NoCID]
    /\ UNCHANGED <<blocks, pins, published, clock, snapshotCID, cidLookup,
                   currentNumEntries, maxEntries, pinning, announcing,
                   cipherKey, nextUuid, lastSet>>
    /\ UNCHANGED concVars

\* err := db.Delete(key)
CallDelete(key, fail) ==
    /\ OneMoreCall
    /\ MayFail(fail)
    /\ LET r == DeleteResult(key, fail) IN
       /\ blocks' = r.blocks
       /\ pins' = r.pins
       /\ snapshotCID' = r.snapshotCID
       /\ cidLookup' = r.cidLookup
       /\ currentNumEntries' = r.count
       /\ failures' = failures + (IF r.gw THEN 1 ELSE 0)
       /\ lastSet' = IF r.err = "none"
                     THEN [lastSet EXCEPT ![key] = NoLastSet] ELSE lastSet
       /\ last' = [Call("Delete", key, 0) EXCEPT
                       !.err = r.err, !.gw = r.gw, !.cid = r.cid]
    /\ UNCHANGED <<published, clock, maxEntries, pinning, announcing,
                   cipherKey, recs, nextUuid, origin>>
    /\ UNCHANGED concVars

Next ==
    \/ \E s \in Slots, alias \in Aliases : CallNewRecord(s, alias)
    \/ \E s \in Slots, tick \in Ticks : CallAddComment(s, tick)
    \/ \E s \in Slots, key \in CallerKeys, nonce \in Nonces :
          CallEncrypt(s, key, nonce)
    \/ \E key \in Keys, s \in Slots, nonce \in Nonces,
          fail \in {"none", "DagGet", "DagPut", "AddLink", "Publish"} :
          CallSet(key, s, fail, nonce)
    \/ \E key \in Keys, s \in Slots, fail \in {"none", "DagGet"} :
          CallGet(key, s, fail)
    \/ \E key \in Keys, fail \in {"none", "RmLink", "Unpin"} :
          CallDelete(key, fail)

Spec == Init /\ [][Next]_vars

\* ------------------------------------------------- concurrent callers
\* What the handle's own variables are to a step that leaves them alone.
dbVars == <<snapshotCID, cidLookup, currentNumEntries, maxEntries, pinning,
            announcing, cipherKey>>

\* The gateway's and the sequential caller's variables.
ipfsVars == <<blocks, pins, published>>
callerVars == <<clock, recs, nextUuid, last, lastSet, origin, calls>>

\* A thread or task is at a place in its code, in a process that runs: a
\* panic in any goroutine ends the process.
At(p, place) == pc[p] = place /\ \A q \in DOMAIN pc : pc[q] # "crashed"

\* The threads that have called Set and not yet added its nodes.
SetsToCome ==
    {u \in Threads : pc[u] \in {"lock", "locked"} /\ call[u].op = "Set"}

\* A thread calls Set, Get or GetSnapshot: it is now at the Lock() that
\* opens each of them. A Set is called only if the block store has room
\* for its two nodes after those of the Sets already called.
ThreadCall(t, op, key) ==
    /\ At(t, "idle")
    /\ pc["teardown"] = "idle"
    /\ tcalls[t] < MaxThreadCalls
    /\ op = "Set" =>
           Len(blocks) + 2 * (Cardinality(SetsToCome) + 1) <= MaxBlocks
    /\ pc' = [pc EXCEPT ![t] = "lock"]
    /\ call' = [call EXCEPT ![t] = [@ EXCEPT !.op = op, !.key = key]]
    /\ start' = [start EXCEPT ![t] = effects]
    /\ tcalls' = [tcalls EXCEPT ![t] = @ + 1]
    /\ UNCHANGED <<mutex, pending, ret, effects>>
    /\ UNCHANGED <<dbVars, ipfsVars, callerVars, failures, taskVars>>

\* Db.lock.Lock() returns.
ThreadLock(t) ==
    /\ At(t, "lock")
    /\ LockFree(mutex)
    /\ mutex' = Locked(t)
    /\ pc' = [pc EXCEPT ![t] = "locked"]
    /\ UNCHANGED <<call, pending, ret, effects, start, tcalls>>
    /\ UNCHANGED <<dbVars, ipfsVars, callerVars, failures, taskVars>>

\* Set, up to its last gateway call: the checks on the handle's fields as
\* it reads them, and the gateway calls.
ThreadSetGateway(t, fail) ==
    /\ At(t, "locked") /\ call[t].op = "Set"
    /\ MayFail(fail)
    /\ Len(blocks) + 2 <= MaxBlocks
    /\ LET r == SetResult(call[t].key, call[t].rec, clock, fail, 1) IN
       /\ blocks' = r.blocks
       /\ pins' = r.pins
       /\ published' = r.published
       /\ pending' = [pending EXCEPT ![t] = r]
       /\ failures' = failures + (IF r.gw THEN 1 ELSE 0)
    /\ pc' = [pc EXCEPT ![t] = "gatewayDone"]
    /\ UNCHANGED <<mutex, call, ret, effects, start, tcalls>>
    /\ UNCHANGED <<dbVars, callerVars, taskVars>>

\* Set's assignments to the handle's fields, from what it read and what
\* the gateway returned.
ThreadSetAssign(t) ==
    /\ At(t, "gatewayDone")
    /\ snapshotCID' = pending[t].snapshotCID
    /\ cidLookup' = pending[t].cidLookup
    /\ currentNumEntries' = pending[t].count
    /\ call' = [call EXCEPT ![t] = [@ EXCEPT !.rec = pending[t].rec]]
    /\ ret' = [ret EXCEPT ![t] = [err |-> pending[t].err,
                                   cid |-> pending[t].cid]]
    /\ pc' = [pc EXCEPT ![t] = "unlock"]
    /\ UNCHANGED <<mutex, pending, effects, start, tcalls>>
    /\ UNCHANGED <<maxEntries, pinning, announcing, cipherKey>>
    /\ UNCHANGED <<ipfsVars, callerVars, failures, taskVars>>

\* The body of Get.
ThreadGet(t) ==
    /\ At(t, "locked") /\ call[t].op = "Get"
    /\ LET r == GetResult(call[t].key, "none") IN
       ret' = [ret EXCEPT ![t] = [err |-> r.err, cid |-> r.rec.previousCID]]
    /\ pc' = [pc EXCEPT ![t] = "unlock"]
    /\ UNCHANGED <<mutex, call, pending, effects, start, tcalls>>
    /\ UNCHANGED <<dbVars, ipfsVars, callerVars, failures, taskVars>>

\* The body of GetSnapshot.
ThreadGetSnapshot(t) ==
    /\ At(t, "locked") /\ call[t].op = "GetSnapshot"
    /\ ret' = [ret EXCEPT ![t] = [err |-> "none", cid |-> GetSnapshot]]
    /\ pc' = [pc EXCEPT ![t] = "unlock"]
    /\ UNCHANGED <<mutex, call, pending, effects, start, tcalls>>
    /\ UNCHANGED <<dbVars, ipfsVars, callerVars, failures, taskVars>>

\* The deferred Unlock(), and the return to the caller. Unlock() of a lock
\* that is not locked is a fatal error.
ThreadUnlock(t) ==
    /\ At(t, "unlock")
    /\ mutex' = Unlocked
    /\ pc' = [pc EXCEPT ![t] = IF mutex = Locked(t) THEN "idle"
                                ELSE "crashed"]
    /\ effects' = IF call[t].op = "Set" /\ ret[t].err = "none"
                  THEN KeystoreSet(effects, call[t].key, ret[t].cid)
                  ELSE effects
    /\ UNCHANGED <<call, pending, ret, start, tcalls>>
    /\ UNCHANGED <<dbVars, ipfsVars, callerVars, failures, taskVars>>

ThreadNext ==
    \/ \E t \in Threads, key \in Keys : ThreadCall(t, "Set", key)
    \/ \E t \in Threads, key \in Keys : ThreadCall(t, "Get", key)
    \/ \E t \in Threads : ThreadCall(t, "GetSnapshot", "")
    \/ \E t \in Threads : ThreadLock(t)
    \/ \E t \in Threads, fail \in {"none", "Publish"} :
          ThreadSetGateway(t, fail)
    \/ \E t \in Threads : ThreadSetAssign(t)
    \/ \E t \in Threads : ThreadGet(t)
    \/ \E t \in Threads : ThreadGetSnapshot(t)
    \/ \E t \in Threads : ThreadUnlock(t)

\* Several threads call one handle.
ThreadSpec == Init /\ [][ThreadNext]_vars

\* ------------------------------------------- Listen, PubSub and teardown
\* The CIDs that peers announce on the project's topic.
Announced == {1, 2}

\* What a task's step leaves alone of the sequential model.
restVars == <<ipfsVars, callerVars, failures>>

\* The process runs: no goroutine has panicked.
Running == \A q \in DOMAIN pc : pc[q] # "crashed"

\* A call through Db.ipfsClient: a nil pointer once the handle is zeroed.
Through(place) == IF life.zeroed THEN "crashed" ELSE place

\* Listen(terminator): the node is online, the client subscribes to the
\* project's topic and starts the task that reads the subscription, and
\* Listen starts the task that processes the messages.
ListenCall(fail) ==
    /\ At("listen", "idle")
    /\ pc["teardown"] = "idle"
    /\ life.online
    /\ MayFail(fail)
    /\ IF fail = "Subscribe"
       THEN /\ failures' = failures + 1
            /\ UNCHANGED <<pc, client>>
       ELSE /\ client' = [client EXCEPT !.pubsubSub = TRUE,
                                         !.cursor = Len(published),
                                         !.subscriptions = 1]
            /\ pc' = [pc EXCEPT !["listen"] = "loop", !["sub"] = "select"]
            /\ UNCHANGED failures
    /\ UNCHANGED <<mutex, call, pending, ret, effects, start, tcalls>>
    /\ UNCHANGED <<life, listener, reader, dbVars, ipfsVars, callerVars>>

\* close(ch) of a channel that is closed, and ch <- v on a channel that is
\* closed, are panics: the client is left as it is, and the misuse noted.
ClosedTwice(c) == [c EXCEPT !.misuse = "close of closed channel"]
SentOnClosed(c) == [c EXCEPT !.misuse = "send on closed channel"]

\* The top of Listen's loop: the select evaluates its channels,
\* starkdb.ipfsClient.GetPSMchan() first. The channels are those of the
\* subscription the client has at this moment.
ListenSelect ==
    /\ At("listen", "loop")
    /\ pc' = [pc EXCEPT !["listen"] = Through("select")]
    /\ listener' = [listener EXCEPT !.subscription = client.subscriptions]
    /\ UNCHANGED <<mutex, call, pending, ret, effects, start, tcalls>>
    /\ UNCHANGED <<life, client, reader, dbVars, restVars>>

\* A tracker that has seen nothing.
SeenNothing(cidTracker, cid) == FALSE

\* _, ok := cidTracker[cid]
Seen(cidTracker, cid) == cid \in cidTracker

\* A record sent on recChan, and whether an error was sent on errChan
\* before it.
SentRecord(rec, erred) == [rec |-> rec, afterError |-> erred]

\* A record passed on as it was fetched, without a comment.
CollectedAsFetched(rec) == rec

\* collectedRecord.AddComment("collected from <peer> via pubsub.")
Collected(rec) == AddComment(rec, "collected from peer via pubsub.", clock)

\* case msg := <-GetPSMchan(): a CID seen before is skipped.
ListenReceiveMessage ==
    /\ At("listen", "select")
    /\ listener.subscription = client.subscriptions
    /\ client.pubsubMessages # <<>>
    /\ LET cid == Head(client.pubsubMessages) IN
       /\ client' = [client EXCEPT !.pubsubMessages = Tail(@)]
       /\ IF Seen(listener.cidTracker, cid)
          THEN /\ pc' = [pc EXCEPT !["listen"] = "loop"]
               /\ UNCHANGED listener
          ELSE /\ pc' = [pc EXCEPT !["listen"] = "fetch"]
               /\ listener' = [listener EXCEPT
                                  !.cid = cid, !.cidTracker = @ \cup {cid}]
    /\ UNCHANGED <<mutex, call, pending, ret, effects, start, tcalls>>
    /\ UNCHANGED <<life, reader, dbVars, restVars>>

\* case err := <-GetPSEchan()
ListenReceiveError ==
    /\ At("listen", "select")
    /\ listener.subscription = client.subscriptions
    /\ client.pubsubErrors # <<>>
    /\ client' = [client EXCEPT !.pubsubErrors = Tail(@)]
    /\ listener' = [listener EXCEPT !.err = Head(client.pubsubErrors)]
    /\ pc' = [pc EXCEPT !["listen"] = "sendErr"]
    /\ UNCHANGED <<mutex, call, pending, ret, effects, start, tcalls>>
    /\ UNCHANGED <<life, reader, dbVars, restVars>>

\* case <-terminator, in the Listen task l
TerminatedBy(l) ==
    /\ At(l, "select")
    /\ reader.terminator
    /\ pc' = [pc EXCEPT ![l] = "unsubscribe"]
    /\ UNCHANGED <<mutex, call, pending, ret, effects, start, tcalls>>
    /\ UNCHANGED <<taskVars, dbVars, restVars>>

ListenTerminated == TerminatedBy("listen")

\* starkdb.getRecordFromCID(cid) starts: it takes no lock, and calls DagGet
\* through Db.ipfsClient with Db.ctx.
ListenFetchBegin ==
    /\ At("listen", "fetch")
    /\ pc' = [pc EXCEPT !["listen"] = Through("fetching")]
    /\ UNCHANGED <<mutex, call, pending, ret, effects, start, tcalls>>
    /\ UNCHANGED <<taskVars, dbVars, restVars>>

\* getRecordFromCID returns: DagGet fails if the gateway fails, and once
\* the context is cancelled or the node is closed; a record gets the
\* comment that PubSub brought it.
ListenFetchEnd(fail) ==
    /\ At("listen", "fetching")
    /\ MayFail(fail)
    /\ failures' = failures + (IF fail = "DagGet" THEN 1 ELSE 0)
    /\ LET r == getRecordFromCID(blocks, cipherKey, listener.cid,
                                  fail # "DagGet" /\ ~life.ctxDone
                                  /\ life.online)
       IN IF r.err # "none"
          THEN /\ listener' = [listener EXCEPT !.err = r.err]
               /\ pc' = [pc EXCEPT !["listen"] = "sendErr"]
          ELSE /\ listener' = [listener EXCEPT !.rec = Collected(r.rec)]
               /\ pc' = [pc EXCEPT !["listen"] = "sendRec"]
    /\ UNCHANGED <<mutex, call, pending, ret, effects, start, tcalls>>
    /\ UNCHANGED <<life, client, reader, dbVars, ipfsVars, callerVars>>

\* A Listen that gives up after it has sent an error: it goes on to
\* unsubscribe as if the terminator had been signalled.
ListenSendErrorAndStop ==
    /\ At("listen", "sendErr")
    /\ reader.reading
    /\ listener' = [listener EXCEPT !.err = "none", !.erred = TRUE]
    /\ pc' = [pc EXCEPT !["listen"] = "unsubscribe"]
    /\ UNCHANGED <<mutex, call, pending, ret, effects, start, tcalls>>
    /\ UNCHANGED <<life, client, reader, dbVars, restVars>>

\* errChan <- err: the channel has no buffer, the send waits for the
\* caller to receive.
ListenSendError ==
    /\ At("listen", "sendErr")
    /\ reader.reading
    /\ listener' = [listener EXCEPT !.err = "none", !.erred = TRUE]
    /\ pc' = [pc EXCEPT !["listen"] = "loop"]
    /\ UNCHANGED <<mutex, call, pending, ret, effects, start, tcalls>>
    /\ UNCHANGED <<life, client, reader, dbVars, restVars>>

\* recChan <- collectedRecord: the send waits for room in the buffer.
ListenSendRecord ==
    /\ At("listen", "sendRec")
    /\ Len(listener.recChan) < RecordBuffer
    /\ listener' = [listener EXCEPT
                       !.recChan = Append(@, listener.rec),
                       !.rec = NoRecord,
                       !.sent = Append(@, SentRecord(listener.rec,
                                                     listener.erred))]
    /\ pc' = [pc EXCEPT !["listen"] = "loop"]
    /\ UNCHANGED <<mutex, call, pending, ret, effects, start, tcalls>>
    /\ UNCHANGED <<life, client, reader, dbVars, restVars>>

\* starkdb.ipfsClient.Unsubscribe() starts, called by the Listen task l:
\* close(client.pubsubStop), a panic if the channel is closed already.
UnsubscribeBy(l) ==
    /\ At(l, "unsubscribe")
    /\ pc' = [pc EXCEPT ![l] = IF client.pubsubStop THEN "crashed"
                               ELSE Through("stopping")]
    /\ client' = IF life.zeroed THEN client
                 ELSE IF client.pubsubStop THEN ClosedTwice(client)
                 ELSE [client EXCEPT !.pubsubStop = TRUE]
    /\ UNCHANGED <<mutex, call, pending, ret, effects, start, tcalls>>
    /\ UNCHANGED <<life, listener, reader, dbVars, restVars>>

ListenUnsubscribe == UnsubscribeBy("listen")

\* Unsubscribe after <-client.pubsubStopped, called by the Listen task l:
\* the client's channels are closed, which is a panic if they are closed
\* already, and the subscription is closed, which is a panic if the client
\* has none and which may fail.
StoppedBy(l, fail) ==
    /\ At(l, "stopping")
    /\ client.pubsubStopped
    /\ MayFail(fail)
    /\ IF client.closed \/ ~client.pubsubSub
       THEN /\ client' = IF client.closed THEN ClosedTwice(client)
                         ELSE [client EXCEPT !.pubsubMessages = <<>>,
                                             !.pubsubErrors = <<>>,
                                             !.closed = TRUE]
            /\ pc' = [pc EXCEPT ![l] = "crashed"]
            /\ UNCHANGED <<failures, listener>>
       ELSE IF fail = "Close"
       THEN /\ failures' = failures + 1
            /\ client' = [client EXCEPT !.pubsubMessages = <<>>,
                                         !.pubsubErrors = <<>>,
                                         !.closed = TRUE]
            /\ listener' = [listener EXCEPT !.err = "CloseFailed"]
            /\ pc' = [pc EXCEPT ![l] = "sendUnsubscribeErr"]
       ELSE /\ client' = [client EXCEPT !.pubsubMessages = <<>>,
                                         !.pubsubErrors = <<>>,
                                         !.closed = TRUE,
                                         !.pubsubSub = FALSE]
            /\ pc' = [pc EXCEPT ![l] = "closing"]
            /\ UNCHANGED <<failures, listener>>
    /\ UNCHANGED <<mutex, call, pending, ret, effects, start, tcalls>>
    /\ UNCHANGED <<life, reader, dbVars, ipfsVars, callerVars>>

ListenStopped(fail) == StoppedBy("listen", fail)

\* errChan <- err with the error of Unsubscribe.
ListenSendUnsubscribeError ==
    /\ At("listen", "sendUnsubscribeErr")
    /\ reader.reading
    /\ listener' = [listener EXCEPT !.err = "none", !.erred = TRUE]
    /\ pc' = [pc EXCEPT !["listen"] = "closing"]
    /\ UNCHANGED <<mutex, call, pending, ret, effects, start, tcalls>>
    /\ UNCHANGED <<life, client, reader, dbVars, restVars>>

\* close(recChan); close(errChan); return
ListenClose ==
    /\ At("listen", "closing")
    /\ listener' = [listener EXCEPT !.recClosed = TRUE, !.errClosed = TRUE]
    /\ pc' = [pc EXCEPT !["listen"] = "returned"]
    /\ UNCHANGED <<mutex, call, pending, ret, effects, start, tcalls>>
    /\ UNCHANGED <<life, client, reader, dbVars, restVars>>

\* The subscription task's select: it returns, closing pubsubStopped, if
\* pubsubStop is closed, and takes the default otherwise. The channel it
\* closes is the pubsubStopped that its defer statement evaluated when the
\* task took its first step: that of the subscription the client had
\* then. pubsubStop and pubsubSub are the client's fields as they are now,
\* and Next on a nil pubsubSub is a panic.
SubSelect ==
    /\ At("sub", "select")
    /\ LET mine == IF client.deferred = 0 THEN client.subscriptions
                   ELSE client.deferred
           c == [client EXCEPT !.deferred = mine]
       IN IF client.pubsubStop
          THEN IF mine # client.subscriptions
               THEN /\ client' = c
                    /\ pc' = [pc EXCEPT !["sub"] = "stopped"]
               ELSE IF client.pubsubStopped
               THEN /\ client' = ClosedTwice(c)
                    /\ pc' = [pc EXCEPT !["sub"] = "crashed"]
               ELSE /\ client' = [c EXCEPT !.pubsubStopped = TRUE]
                    /\ pc' = [pc EXCEPT !["sub"] = "stopped"]
          ELSE /\ pc' = [pc EXCEPT !["sub"] = IF client.pubsubSub
                                              THEN "next" ELSE "crashed"]
               /\ client' = c
    /\ UNCHANGED <<mutex, call, pending, ret, effects, start, tcalls>>
    /\ UNCHANGED <<life, listener, reader, dbVars, restVars>>

\* pubsubSub.Next(ctx) returns a message that a peer announced.
SubNextMessage(m) ==
    /\ At("sub", "next")
    /\ ~life.ctxDone
    /\ client' = [client EXCEPT !.message = m]
    /\ pc' = [pc EXCEPT !["sub"] = "sendMessage"]
    /\ UNCHANGED <<mutex, call, pending, ret, effects, start, tcalls>>
    /\ UNCHANGED <<life, listener, reader, dbVars, restVars>>

\* pubsubSub.Next(ctx) returns the next of the messages that this node sent
\* on the topic since it subscribed: a node receives what it publishes.
SubNextPublished ==
    /\ At("sub", "next")
    /\ ~life.ctxDone
    /\ client.cursor < Len(published)
    /\ client' = [client EXCEPT !.message = published[client.cursor + 1],
                                 !.cursor = @ + 1]
    /\ pc' = [pc EXCEPT !["sub"] = "sendMessage"]
    /\ UNCHANGED <<mutex, call, pending, ret, effects, start, tcalls>>
    /\ UNCHANGED <<life, listener, reader, dbVars, restVars>>

\* pubsubSub.Next(ctx) returns context.Canceled: continue.
SubNextCanceled ==
    /\ At("sub", "next")
    /\ life.ctxDone
    /\ pc' = [pc EXCEPT !["sub"] = "select"]
    /\ UNCHANGED <<mutex, call, pending, ret, effects, start, tcalls>>
    /\ UNCHANGED <<taskVars, dbVars, restVars>>

\* pubsubSub.Next(ctx) returns another error.
SubNextError ==
    /\ At("sub", "next")
    /\ ~life.ctxDone
    /\ failures < MaxFailures
    /\ failures' = failures + 1
    /\ pc' = [pc EXCEPT !["sub"] = "sendError"]
    /\ UNCHANGED <<mutex, call, pending, ret, effects, start, tcalls>>
    /\ UNCHANGED <<taskVars, dbVars, ipfsVars, callerVars>>

\* client.pubsubMessages <- message
SubSendMessage ==
    /\ At("sub", "sendMessage")
    /\ IF client.closed
       THEN /\ client' = SentOnClosed(client)
            /\ pc' = [pc EXCEPT !["sub"] = "crashed"]
       ELSE /\ Len(client.pubsubMessages) < PubSubBuffer
            /\ client' = [client EXCEPT
                              !.pubsubMessages = Append(@, client.message),
                              !.message = NoCID]
            /\ pc' = [pc EXCEPT !["sub"] = "select"]
    /\ UNCHANGED <<mutex, call, pending, ret, effects, start, tcalls>>
    /\ UNCHANGED <<life, listener, reader, dbVars, restVars>>

\* client.pubsubErrors <- err
SubSendError ==
    /\ At("sub", "sendError")
    /\ IF client.closed
       THEN /\ client' = SentOnClosed(client)
            /\ pc' = [pc EXCEPT !["sub"] = "crashed"]
       ELSE /\ Len(client.pubsubErrors) < PubSubBuffer
            /\ client' = [client EXCEPT
                              !.pubsubErrors = Append(@, "PubSubFailed")]
            /\ pc' = [pc EXCEPT !["sub"] = "select"]
    /\ UNCHANGED <<mutex, call, pending, ret, effects, start, tcalls>>
    /\ UNCHANGED <<life, listener, reader, dbVars, restVars>>

\* The caller calls the teardown that OpenDB returned.
TeardownCall ==
    /\ At("teardown", "idle")
    /\ pc' = [pc EXCEPT !["teardown"] = "lock"]
    /\ UNCHANGED <<mutex, call, pending, ret, effects, start, tcalls>>
    /\ UNCHANGED <<taskVars, dbVars, restVars>>

\* starkdb.Lock()
TeardownLock ==
    /\ At("teardown", "lock")
    /\ LockFree(mutex)
    /\ mutex' = Locked("teardown")
    /\ pc' = [pc EXCEPT !["teardown"] = "cancel"]
    /\ UNCHANGED <<call, pending, ret, effects, start, tcalls>>
    /\ UNCHANGED <<taskVars, dbVars, restVars>>

\* starkdb.ctxCancel()
TeardownCancel ==
    /\ At("teardown", "cancel")
    /\ life' = [life EXCEPT !.ctxDone = TRUE]
    /\ pc' = [pc EXCEPT !["teardown"] = "endSession"]
    /\ UNCHANGED <<mutex, call, pending, ret, effects, start, tcalls>>
    /\ UNCHANGED <<client, listener, reader, dbVars, restVars>>

\* starkdb.ipfsClient.EndSession(): if it fails, teardown returns its
\* error there and then.
TeardownEndSession(fail) ==
    /\ At("teardown", "endSession")
    /\ MayFail(fail)
    /\ IF fail = "EndSession"
       THEN /\ failures' = failures + 1
            /\ life' = [life EXCEPT !.err = "EndSessionFailed"]
            /\ pc' = [pc EXCEPT !["teardown"] = "returned"]
       ELSE /\ life' = [life EXCEPT !.online = FALSE]
            /\ pc' = [pc EXCEPT !["teardown"] = "unlock"]
            /\ UNCHANGED failures
    /\ UNCHANGED <<mutex, call, pending, ret, effects, start, tcalls>>
    /\ UNCHANGED <<client, listener, reader, dbVars, ipfsVars, callerVars>>

\* starkdb.Unlock()
TeardownUnlock ==
    /\ At("teardown", "unlock")
    /\ mutex' = Unlocked
    /\ pc' = [pc EXCEPT !["teardown"] = "zero"]
    /\ UNCHANGED <<call, pending, ret, effects, start, tcalls>>
    /\ UNCHANGED <<taskVars, dbVars, restVars>>

\* *starkdb = Db{}; return nil: every field of the handle gets its zero
\* value, the lock included.
TeardownZero ==
    /\ At("teardown", "zero")
    /\ mutex' = Unlocked
    /\ snapshotCID' = NoCID
    /\ cidLookup' = NoLinks
    /\ currentNumEntries' = 0
    /\ maxEntries' = 0
    /\ pinning' = FALSE
    /\ announcing' = FALSE
    /\ cipherKey' = NoKey
    /\ life' = [life EXCEPT !.zeroed = TRUE]
    /\ pc' = [pc EXCEPT !["teardown"] = "returned"]
    /\ UNCHANGED <<call, pending, ret, effects, start, tcalls>>
    /\ UNCHANGED <<client, listener, reader, restVars>>

\* The caller signals the terminator it gave to Listen.
CallerTerminates ==
    /\ Running
    /\ pc["listen"] # "idle"
    /\ ~reader.terminator
    /\ reader' = [reader EXCEPT !.terminator = TRUE]
    /\ UNCHANGED <<threadVars, life, client, listener, dbVars, restVars>>

\* The caller stops receiving from the two channels Listen returned.
CallerStopsReading ==
    /\ Running
    /\ pc["listen"] # "idle"
    /\ reader.reading
    /\ reader' = [reader EXCEPT !.reading = FALSE]
    /\ UNCHANGED <<threadVars, life, client, listener, dbVars, restVars>>

\* The caller receives a record from recChan.
CallerReceives ==
    /\ Running
    /\ reader.reading
    /\ listener.recChan # <<>>
    /\ listener' = [listener EXCEPT !.recChan = Tail(@)]
    /\ UNCHANGED <<threadVars, life, client, reader, dbVars, restVars>>

\* The steps each task takes by itself, once it can.
ListenSteps ==
    \/ ListenSelect
    \/ ListenFetchBegin
    \/ ListenFetchEnd("none")
    \/ ListenSendError
    \/ ListenSendRecord
    \/ ListenUnsubscribe
    \/ ListenStopped("none")
    \/ ListenSendUnsubscribeError
    \/ ListenClose

SubSteps == SubSelect \/ SubNextCanceled \/ SubSendMessage \/ SubSendError

TeardownSteps ==
    \/ TeardownLock
    \/ TeardownCancel
    \/ TeardownEndSession("none")
    \/ TeardownUnlock
    \/ TeardownZero

SetterSteps ==
    \/ ThreadLock("t1")
    \/ ThreadSetGateway("t1", "none")
    \/ ThreadSetAssign("t1")
    \/ ThreadUnlock("t1")

ListenNext ==
    \/ \E fail \in {"none", "Subscribe"} : ListenCall(fail)
    \/ ListenSelect
    \/ ListenReceiveMessage
    \/ ListenReceiveError
    \/ ListenTerminated
    \/ ListenFetchBegin
    \/ ListenFetchEnd("none")
    \/ ListenSendError
    \/ ListenSendRecord
    \/ ListenUnsubscribe
    \/ \E fail \in {"none", "Close"} : ListenStopped(fail)
    \/ ListenSendUnsubscribeError
    \/ ListenClose
    \/ SubSelect
    \/ \E m \in Announced : SubNextMessage(m)
    \/ SubNextCanceled
    \/ SubNextError
    \/ SubSendMessage
    \/ SubSendError
    \/ TeardownCall
    \/ TeardownLock
    \/ TeardownCancel
    \/ \E fail \in {"none", "EndSession"} : TeardownEndSession(fail)
    \/ TeardownUnlock
    \/ TeardownZero
    \/ CallerTerminates
    \/ CallerStopsReading
    \/ CallerReceives
    \/ ThreadCall("t1", "Set", "k2")
    \/ ThreadLock("t1")
    \/ ThreadSetGateway("t1", "none")
    \/ ThreadSetAssign("t1")
    \/ ThreadUnlock("t1")

\* A handle without a cipher key on the project an earlier session left.
ListenInit ==
    /\ Init
    /\ cidLookup # NoLinks
    /\ cipherKey = NoKey
    /\ maxEntries = 2
    /\ ~announcing

\* The Go scheduler runs every goroutine that can take a step, and a select
\* chooses at random among its ready cases, so that no case that is ready
\* again and again is passed over for ever. Nothing makes a peer announce,
\* the caller receive, or a gateway call fail.
ListenFairness ==
    /\ WF_vars(ListenSteps)
    /\ SF_vars(ListenReceiveMessage)
    /\ SF_vars(ListenReceiveError)
    /\ SF_vars(ListenTerminated)
    /\ WF_vars(SubSteps)
    /\ WF_vars(TeardownSteps)
    /\ WF_vars(SetterSteps)

\* A handle with a Listen task, a thread that calls Set, and teardown.
ListenSpec == ListenInit /\ [][ListenNext]_vars /\ ListenFairness

\* ------------------------------------------------- a second Listen call
\* Listen(terminator) is called again, with the same terminator, on the
\* handle that has a Listen session: Subscribe gives the client a new
\* subscription and new channels in place of those it has, and starts a
\* second subscription task; Listen starts a second Listen task, which
\* enters its select.
ListenAgain ==
    /\ At("listen2", "idle")
    /\ pc["listen"] # "idle"
    /\ pc["teardown"] = "idle"
    /\ life.online
    /\ client' = [client EXCEPT !.pubsubMessages = <<>>,
                                 !.pubsubErrors = <<>>,
                                 !.pubsubStop = FALSE,
                                 !.pubsubStopped = FALSE,
                                 !.pubsubSub = TRUE,
                                 !.closed = FALSE,
                                 !.cursor = Len(published),
                                 !.subscriptions = 2]
    /\ pc' = [pc EXCEPT !["listen2"] = "select", !["sub2"] = "select"]
    /\ UNCHANGED <<mutex, call, pending, ret, effects, start, tcalls>>
    /\ UNCHANGED <<life, listener, reader, dbVars, restVars>>

\* The second subscription task's select: it returns, closing the
\* pubsubStopped of its subscription, if pubsubStop is closed, and goes to
\* wait in Next otherwise.
Sub2Select ==
    /\ At("sub2", "select")
    /\ IF client.pubsubStop
       THEN IF client.pubsubStopped
            THEN /\ client' = ClosedTwice(client)
                 /\ pc' = [pc EXCEPT !["sub2"] = "crashed"]
            ELSE /\ client' = [client EXCEPT !.pubsubStopped = TRUE]
                 /\ pc' = [pc EXCEPT !["sub2"] = "stopped"]
       ELSE /\ pc' = [pc EXCEPT !["sub2"] = IF client.pubsubSub THEN "next"
                                            ELSE "crashed"]
            /\ UNCHANGED client
    /\ UNCHANGED <<mutex, call, pending, ret, effects, start, tcalls>>
    /\ UNCHANGED <<life, listener, reader, dbVars, restVars>>

\* The second Listen task: the terminator case of its select and the
\* Unsubscribe it calls.
Listen2Terminated == TerminatedBy("listen2")
Listen2Unsubscribe == UnsubscribeBy("listen2")
Listen2Stopped == StoppedBy("listen2", "none")

\* The second Listen task closes the channels of its own and returns.
Listen2Close ==
    /\ At("listen2", "closing")
    /\ pc' = [pc EXCEPT !["listen2"] = "returned"]
    /\ UNCHANGED <<mutex, call, pending, ret, effects, start, tcalls>>
    /\ UNCHANGED <<taskVars, dbVars, restVars>>

\* One handle with Listen called once or twice, the caller of Listen, and
\* teardown.
RelistenNext ==
    \/ \E fail \in {"none", "Subscribe"} : ListenCall(fail)
    \/ ListenSelect
    \/ ListenReceiveMessage
    \/ ListenReceiveError
    \/ ListenTerminated
    \/ ListenFetchBegin
    \/ ListenFetchEnd("none")
    \/ ListenSendError
    \/ ListenSendRecord
    \/ ListenUnsubscribe
    \/ \E fail \in {"none", "Close"} : ListenStopped(fail)
    \/ ListenSendUnsubscribeError
    \/ ListenClose
    \/ SubSelect
    \/ \E m \in Announced : SubNextMessage(m)
    \/ SubNextCanceled
    \/ SubNextError
    \/ SubSendMessage
    \/ SubSendError
    \/ ListenAgain
    \/ Sub2Select
    \/ Listen2Terminated
    \/ Listen2Unsubscribe
    \/ Listen2Stopped
    \/ Listen2Close
    \/ TeardownCall
    \/ TeardownLock
    \/ TeardownCancel
    \/ \E fail \in {"none", "EndSession"} : TeardownEndSession(fail)
    \/ TeardownUnlock
    \/ TeardownZero
    \/ CallerTerminates
    \/ CallerStopsReading
    \/ CallerReceives

RelistenSpec == ListenInit /\ [][RelistenNext]_vars

\* ---------------------------------------------- Listen and announcements
\* Listen on a handle that announces: the Listen task, the subscription
\* task, the caller of Listen and a thread that calls Set.
AnnounceNext ==
    \/ \E fail \in {"none", "Subscribe"} : ListenCall(fail)
    \/ ListenSelect
    \/ ListenReceiveMessage
    \/ ListenReceiveError
    \/ ListenTerminated
    \/ ListenFetchBegin
    \/ \E fail \in {"none", "DagGet"} : ListenFetchEnd(fail)
    \/ ListenSendError
    \/ ListenSendRecord
    \/ ListenUnsubscribe
    \/ \E fail \in {"none", "Close"} : ListenStopped(fail)
    \/ ListenSendUnsubscribeError
    \/ ListenClose
    \/ SubSelect
    \/ \E m \in Announced : SubNextMessage(m)
    \/ SubNextPublished
    \/ SubNextError
    \/ SubSendMessage
    \/ SubSendError
    \/ CallerTerminates
    \/ CallerStopsReading
    \/ CallerReceives
    \/ ThreadCall("t1", "Set", "k2")
    \/ ThreadLock("t1")
    \/ ThreadSetGateway("t1", "none")
    \/ ThreadSetAssign("t1")
    \/ ThreadUnlock("t1")

\* A handle that announces, without a cipher key, on the project an earlier
\* session left.
AnnounceInit ==
    /\ Init
    /\ cidLookup # NoLinks
    /\ cipherKey = NoKey
    /\ maxEntries = 2
    /\ announcing

\* The scheduler is fair to the goroutines and the select to its cases, as
\* for ListenSpec, and the gateway hands a subscriber every message that
\* this node sent on the topic.
AnnounceFairness ==
    /\ WF_vars(ListenSteps)
    /\ SF_vars(ListenReceiveMessage)
    /\ SF_vars(ListenReceiveError)
    /\ SF_vars(ListenTerminated)
    /\ WF_vars(SubSelect \/ SubSendMessage \/ SubSendError)
    /\ SF_vars(SubNextPublished)
    /\ WF_vars(SetterSteps)

AnnounceSpec == AnnounceInit /\ [][AnnounceNext]_vars /\ AnnounceFairness

\* A session whose caller keeps receiving from both channels and does not
\* signal the terminator, as the caller of Listen in TestMessages does
\* until the first record or error has arrived.
DeliveryNext ==
    \/ \E fail \in {"none", "Subscribe"} : ListenCall(fail)
    \/ ListenSelect
    \/ ListenReceiveMessage
    \/ ListenFetchBegin
    \/ \E fail \in {"none", "DagGet"} : ListenFetchEnd(fail)
    \/ ListenSendError
    \/ ListenSendRecord
    \/ SubSelect
    \/ \E m \in Announced : SubNextMessage(m)
    \/ SubNextPublished
    \/ SubSendMessage
    \/ CallerReceives
    \/ ThreadCall("t1", "Set", "k2")
    \/ ThreadLock("t1")
    \/ ThreadSetGateway("t1", "none")
    \/ ThreadSetAssign("t1")
    \/ ThreadUnlock("t1")

\* The scheduler is fair to the goroutines and the select to its cases, the
\* gateway hands a subscriber every message that this node sent on the
\* topic, and the caller receives what is sent to it.
DeliveryFairness ==
    /\ WF_vars(ListenSteps)
    /\ SF_vars(ListenReceiveMessage)
    /\ WF_vars(SubSelect \/ SubSendMessage)
    /\ SF_vars(SubNextPublished)
    /\ WF_vars(CallerReceives)
    /\ WF_vars(SetterSteps)

DeliverySpec == AnnounceInit /\ [][DeliveryNext]_vars /\ DeliveryFairness

\* ------------------------------------------------------------ properties
\* The (link name, link CID) pairs of the directory node the snapshot names.
SnapshotLinks == Links(blocks, snapshotCID)

\* A key is linked in the snapshot and indexed with the same CID, or is in
\* neither.
KeyAgrees(k) ==
    \/ /\ k \in DOMAIN SnapshotLinks
       /\ k \in DOMAIN cidLookup
       /\ SnapshotLinks[k] = cidLookup[k]
    \/ /\ k \notin DOMAIN SnapshotLinks
       /\ k \notin DOMAIN cidLookup

\* C1: while every gateway call has succeeded, after each Set and Delete
\* the links of the snapshot's directory node are exactly the entries of
\* the in-memory index.
C1_SnapshotIsIndex ==
    failures = 0 => SnapshotLinks = cidLookup

\* C1 witness: with no gateway failure, a Delete has succeeded and left
\* another key behind, in the snapshot and in the index.
C1_Witness ==
    /\ failures = 0
    /\ last.op = "Delete" /\ last.err = "none"
    /\ cidLookup # NoLinks
    /\ SnapshotLinks = cidLookup

\* C2: when Set returns the error of a failed announcement, the key it was
\* given is linked in the snapshot and indexed with the same CID, or is in
\* neither.
C2_PublishFailureAgrees ==
    (last.op = "Set" /\ last.err = "PublishFailed") => KeyAgrees(last.key)

\* C2 diverging state: Set has returned the announcement's error, and the
\* key is linked in the snapshot but is not in the index.
C2_Witness ==
    /\ last.op = "Set" /\ last.err = "PublishFailed"
    /\ last.key \in DOMAIN SnapshotLinks
    /\ last.key \notin DOMAIN cidLookup

\* C3: when Delete returns the error of a failed unpin, the key it was
\* given is in the snapshot and in the index, or in neither, and
\* current_entries is the number of keys in the index.
C3_UnpinFailureAgrees ==
    (last.op = "Delete" /\ last.err = "UnpinFailed") =>
        /\ KeyAgrees(last.key)
        /\ GetNumEntries = Cardinality(DOMAIN cidLookup)

\* C3 diverging state: Delete has returned the unpin's error, and the key
\* is gone from the snapshot but is still in the index.
C3_Witness ==
    /\ last.op = "Delete" /\ last.err = "UnpinFailed"
    /\ last.key \notin DOMAIN SnapshotLinks
    /\ last.key \in DOMAIN cidLookup

\* C4: between operations current_entries, as GetNumEntries reports it, is
\* the number of keys in the index.
C4_CountIsIndexSize ==
    GetNumEntries = Cardinality(DOMAIN cidLookup)

\* C4 diverging state: an accepted Set has updated the one key of the index
\* and current_entries is two.
C4_Witness ==
    /\ last.op = "Set" /\ last.err = "none" /\ last.keyKnown
    /\ Cardinality(DOMAIN cidLookup) = 1
    /\ GetNumEntries = 2

\* C5: with current_entries equal to max_entries, a Set on a key of the
\* index with a record that passes the versioning checks (same uuid,
\* previous_cid the indexed CID, strictly newer last timestamp) succeeds,
\* no gateway call failing.
C5_UpdateOnFullDatabase ==
    (last.op = "Set" /\ last.wasFull /\ last.keyKnown /\ last.versionOk
     /\ ~last.gw) => last.err = "none"

\* C5 diverging state: such a Set has been turned away with
\* MaxEntriesExceeded.
C5_Witness ==
    /\ last.op = "Set" /\ last.wasFull /\ last.keyKnown /\ last.versionOk
    /\ ~last.gw
    /\ last.err = "MaxEntriesExceeded"

C7_RepeatIsAttemptedUpdate ==
    (last.op = "Set" /\ last.repeat /\ ~last.gw) => last.err = "AttemptedUpdate"

\* C7 diverging state: on a plaintext database below its cap the repeated
\* Set has been rejected with RecordHistory.
C7_Witness ==
    /\ last.op = "Set" /\ last.repeat /\ ~last.gw /\ ~last.wasFull
    /\ cipherKey = NoKey
    /\ last.err = "RecordHistory"

\* C8: a record that Get(k) returned, while k still maps to what the last
\* successful Set(k, r) stored, has r's uuid (in plaintext) and alias, and
\* its previous_cid is the CID that Set put in the index for k.
C8_GetReturnsWhatSetStored ==
    \A s \in Slots :
        (/\ origin[s].kind = "get"
         /\ lastSet[origin[s].key].cid # NoCID
         /\ origin[s].key \in DOMAIN cidLookup
         /\ cidLookup[origin[s].key] = lastSet[origin[s].key].cid)
        => /\ recs[s].uuid = lastSet[origin[s].key].uuid
           /\ recs[s].alias = lastSet[origin[s].key].alias
           /\ recs[s].previousCID = lastSet[origin[s].key].cid
           /\ ~recs[s].encrypted

\* C8 witness: on an encrypted database a Get has returned the record a
\* Set stored, and the stored document carries a sealed uuid.
C8_Witness ==
    \E s \in Slots :
        /\ origin[s].kind = "get"
        /\ last.op = "Get" /\ last.err = "none"
        /\ cipherKey # NoKey
        /\ lastSet[origin[s].key].cid = last.cid
        /\ StoredRecord(origin[s].key).encrypted
        /\ StoredRecord(origin[s].key).uuid # recs[s].uuid
        /\ recs[s].uuid = lastSet[origin[s].key].uuid

\* C9: a record returned by Get(k), to which the caller then added a
\* comment with a strictly later timestamp, is accepted by Set(k, .) while
\* k still maps to the version Get returned, on plaintext and on encrypted
\* databases, and k then maps to the new version.
C9_ChainedUpdateAccepted ==
    (last.op = "Set" /\ last.chained /\ ~last.gw) =>
        /\ last.err = "none"
        /\ last.key \in DOMAIN cidLookup
        /\ cidLookup[last.key] = last.cid

\* C9 diverging state: the chained update has been turned away with
\* MaxEntriesExceeded and the key still maps to the version Get returned.
C9_Witness ==
    /\ last.op = "Set" /\ last.chained /\ ~last.gw
    /\ last.err = "MaxEntriesExceeded"
    /\ cidLookup[last.key] = recs[last.slot].previousCID

\* C10: a Set(k, rec) on a key of the index whose stored record has another
\* uuid than rec fails with AttemptedOverwrite, whatever rec's previous_cid
\* and timestamps are.
C10_OtherUuidIsOverwrite ==
    (last.op = "Set" /\ last.keyKnown /\ ~last.sameUuid /\ ~last.gw)
        => last.err = "AttemptedOverwrite"

\* C10 diverging state: a record with another uuid than the stored one has
\* been offered for a key of the index and Set has returned
\* MaxEntriesExceeded.
C10_Witness ==
    /\ last.op = "Set" /\ last.keyKnown /\ ~last.sameUuid /\ ~last.gw
    /\ PlainOf(StoredRecord(last.key).uuid) # PlainOf(recs[last.slot].uuid)
    /\ last.err = "MaxEntriesExceeded"


\* C11: a Set(k, rec) on a key of the index, with the stored record's uuid
\* and a previous_cid that is not the CID indexed for k, fails with
\* RecordHistory and leaves k mapped to the current version.
C11_StaleVersionIsRecordHistory ==
    (last.op = "Set" /\ last.keyKnown /\ last.sameUuid /\ ~last.prevOk
     /\ ~last.gw) => last.err = "RecordHistory"

\* C11 diverging state: a record with the stored uuid and a stale
\* previous_cid has been offered and Set has returned MaxEntriesExceeded.
C11_Witness ==
    /\ last.op = "Set" /\ last.keyKnown /\ last.sameUuid /\ ~last.prevOk
    /\ ~last.gw
    /\ last.err = "MaxEntriesExceeded"

\* C12: a Set(k, rec) on a key of the index, with the stored record's uuid
\* and the indexed CID as previous_cid, is accepted only if rec's last
\* timestamp is strictly later than the stored record's, and fails with
\* AttemptedUpdate if it is equal or earlier.
C12_OnlyNewerIsAccepted ==
    (last.op = "Set" /\ last.keyKnown /\ last.sameUuid /\ last.prevOk
     /\ ~last.gw) =>
        /\ last.err = "none" => last.newer
        /\ ~last.newer => last.err = "AttemptedUpdate"

\* C12 diverging state: the record Get returned has been offered as it is,
\* with the stored record's last timestamp, and Set has returned
\* MaxEntriesExceeded.
C12_Witness ==
    /\ last.op = "Set" /\ last.keyKnown /\ last.sameUuid /\ last.prevOk
    /\ ~last.gw /\ ~last.newer
    /\ GetLastUpdatedTimestamp(recs[last.slot])
           = GetLastUpdatedTimestamp(StoredRecord(last.key))
    /\ last.err = "MaxEntriesExceeded"

\* C13: a successful Delete of the only key of the index leaves
\* current_entries at 0 and makes GetSnapshot return the empty string,
\* whatever Sets came before.
C13_DeleteOfSoleEntry ==
    (last.op = "Delete" /\ last.err = "none" /\ cidLookup = NoLinks) =>
        /\ GetNumEntries = 0
        /\ GetSnapshot = NoCID

\* C13 diverging state: the only key has been deleted, the index is empty,
\* and current_entries is 1 and GetSnapshot returns a CID.
C13_Witness ==
    /\ last.op = "Delete" /\ last.err = "none" /\ cidLookup = NoLinks
    /\ GetNumEntries = 1
    /\ GetSnapshot = snapshotCID /\ GetSnapshot # NoCID

\* C14: GetSnapshot returns the empty string whenever the index is empty,
\* and the current, non-empty snapshot CID whenever the index holds a key.
C14_SnapshotSentinel ==
    /\ cidLookup = NoLinks => GetSnapshot = NoCID
    /\ cidLookup # NoLinks => (GetSnapshot = snapshotCID /\ GetSnapshot # NoCID)

\* C14 diverging state: the index is empty, the snapshot's directory has no
\* links, and GetSnapshot returns its CID.
C14_Witness ==
    /\ cidLookup = NoLinks
    /\ SnapshotLinks = NoLinks
    /\ GetSnapshot # NoCID

\* C15: every operation changes the stored snapshot CID exactly when it
\* changes the set of (key, record CID) pairs of the index; an operation
\* that returns an error changes neither.
C15_SnapshotChangesWithPairs ==
    [][(snapshotCID' # snapshotCID) <=> (cidLookup' # cidLookup)]_vars

\* C15 diverging state: an operation has returned the error of a gateway
\* call, the index is as it was, and the snapshot names a directory with
\* other links.
C15_Witness ==
    /\ last.err # "none" /\ last.gw
    /\ SnapshotLinks # cidLookup

\* C16: Set works on a copy of the caller's record: when Set returns, with
\* success or with an error, the caller's record has the uuid, encrypted
\* flag, history and previous_cid it had before the call.
C16_SetLeavesCallersRecord ==
    [][(\E key \in Keys, s \in Slots, nonce \in Nonces,
           fail \in {"none", "DagGet", "DagPut", "AddLink", "Publish"} :
           CallSet(key, s, fail, nonce)) => recs' = recs]_vars

\* C16 diverging state: Set has returned and the caller's record ends with
\* the comment Set wrote.
C16_Witness ==
    /\ last.op = "Set" /\ last.err = "none"
    /\ origin[last.slot].kind = "set"
    /\ recs[last.slot].history[Len(recs[last.slot].history)].text
           = "Set: adding record to IPFS."

LastWritten == UnmarshalRecord(blocks[last.cid].data)

\* C18: every record node written by Set on a handle with a cipher key has
\* encrypted = true and a uuid that is ciphertext under the handle's key,
\* and every record node written by Set on a handle without a cipher key
\* has encrypted = false and a plaintext uuid, whatever the record passed in.
C18_WrittenAsHandleEncrypts ==
    (last.op = "Set" /\ last.err = "none") =>
        IF cipherKey # NoKey
        THEN /\ LastWritten.encrypted
             /\ Decrypt(LastWritten.uuid, cipherKey).err = "none"
        ELSE /\ ~LastWritten.encrypted
             /\ LastWritten.uuid = PlainOf(LastWritten.uuid)

\* C18 diverging state: a handle without a cipher key has written a record
\* node with encrypted = true and a sealed uuid.
C18_Witness ==
    /\ last.op = "Set" /\ last.err = "none"
    /\ cipherKey = NoKey
    /\ LastWritten.encrypted
    /\ LastWritten.uuid # PlainOf(LastWritten.uuid)

\* C19: on a handle without a cipher key, Get of a key whose stored record
\* has encrypted = true fails, the error it returns is that of the missing
\* cipher key (under the wrapping of getRecordFromCID), and no record is
\* returned.
C19_NoKeyIsCipherKeyMissing ==
    /\ \A k \in DOMAIN cidLookup :
           (cipherKey = NoKey /\ StoredRecord(k).encrypted) =>
               /\ Cause(GetResult(k, "none").err) = "CipherKeyMissing"
               /\ GetResult(k, "none").rec = NoRecord
    /\ (/\ last.op = "Get" /\ ~last.gw
        /\ last.key \in DOMAIN cidLookup
        /\ cipherKey = NoKey /\ StoredRecord(last.key).encrypted)
           => Cause(last.err) = "CipherKeyMissing"

\* C19 witness: a handle without a cipher key holds an encrypted record and
\* a Get of its key has failed for the missing key.
C19_Witness ==
    /\ last.op = "Get" /\ ~last.gw
    /\ last.key \in DOMAIN cidLookup
    /\ cipherKey = NoKey /\ StoredRecord(last.key).encrypted
    /\ last.err # "none"
    /\ Cause(last.err) = "CipherKeyMissing"

\* The stored record of a key was sealed under another key than the
\* handle's.
SealedUnderOtherKey(k) ==
    /\ cipherKey # NoKey
    /\ StoredRecord(k).encrypted
    /\ StoredRecord(k).uuid[1] # cipherKey

\* C20: decrypting a value with a valid key other than the one it was
\* encrypted with fails with CipherPasswordMismatch: a Get of a record
\* sealed under another key than the handle's fails with
\* CipherPasswordMismatch.
C20_OtherKeyIsPasswordMismatch ==
    (/\ last.op = "Get" /\ ~last.gw
     /\ last.key \in DOMAIN cidLookup
     /\ SealedUnderOtherKey(last.key)) =>
        /\ Decrypt(StoredRecord(last.key).uuid, cipherKey).err
               = "CipherPasswordMismatch"
        /\ Cause(last.err) = "CipherPasswordMismatch"

\* C20 diverging state: a Get of a record sealed under another key has
\* failed with the error of the AEAD's authentication, wrapped by
\* getRecordFromCID.
C20_Witness ==
    /\ last.op = "Get" /\ ~last.gw
    /\ last.key \in DOMAIN cidLookup
    /\ SealedUnderOtherKey(last.key)
    /\ Decrypt(StoredRecord(last.key).uuid, cipherKey).err
           = "AuthenticationFailed"
    /\ last.err = WrapEncrypted("AuthenticationFailed")

\* The handle a peer gets from OpenDB with the snapshot CID that GetSnapshot
\* returns.
Reopened == OpenDB(blocks, GetSnapshot)

\* C21: in every state that Set and Delete calls reach and that holds an
\* entry, OpenDB with snapshot_cid = GetSnapshot() gives a handle whose
\* index is the original index, whose current_entries is its size, and on
\* which, with the same cipher key, Get returns for every key what the
\* original handle returns.
C21_ReopenRebuildsDatabase ==
    cidLookup # NoLinks =>
        /\ Reopened.err = "none"
        /\ Reopened.cidLookup = cidLookup
        /\ Reopened.count = Cardinality(DOMAIN cidLookup)
        /\ \A k \in DOMAIN cidLookup :
               LET g == getRecordFromCID(Reopened.blocks, cipherKey,
                                         Reopened.cidLookup[k], TRUE)
               IN g.err = GetResult(k, "none").err
                  /\ g.rec = GetResult(k, "none").rec

\* C21 diverging state: a Set of a second key has returned the error of a
\* failed announcement, the index holds one key, and the handle opened
\* from the snapshot holds two.
C21_Witness ==
    /\ last.op = "Set" /\ last.err = "PublishFailed"
    /\ Cardinality(DOMAIN cidLookup) = 1
    /\ Reopened.err = "none"
    /\ Cardinality(DOMAIN Reopened.cidLookup) = 2

\* C22: GetNodeLinks on a reachable directory node without links succeeds
\* with an empty list, so OpenDB with the snapshot CID of a project without
\* entries succeeds with an empty index.
C22_EmptyDirectoryHasNoLinks ==
    SnapshotLinks = NoLinks =>
        /\ GetNodeLinks(blocks, snapshotCID).err = "none"
        /\ GetNodeLinks(blocks, snapshotCID).links = NoLinks
        /\ OpenDB(blocks, snapshotCID).err = "none"
        /\ OpenDB(blocks, snapshotCID).cidLookup = NoLinks

\* C22 diverging state: the only entry has been deleted, the snapshot is a
\* stored directory node without links, GetNodeLinks returns the error for
\* a node without links and OpenDB fails with InvalidSnapshot.
C22_Witness ==
    /\ last.op = "Delete" /\ last.err = "none"
    /\ snapshotCID \in 1..Len(blocks)
    /\ SnapshotLinks = NoLinks
    /\ GetNodeLinks(blocks, snapshotCID).err = "NoLinks"
    /\ OpenDB(blocks, snapshotCID).err = "InvalidSnapshot"

\* C23: all versions that accepted Sets store under a key carry the same
\* plaintext uuid: no call replaces the record indexed under a key with a
\* record of another uuid.
C23_UuidOfKeyIsKept ==
    [][\A k \in (DOMAIN cidLookup) \cap (DOMAIN cidLookup') :
          PlainOf(UnmarshalRecord(blocks'[cidLookup'[k]].data).uuid)
              = PlainOf(UnmarshalRecord(blocks[cidLookup[k]].data).uuid)]_vars

\* C23 witness: an accepted Set has stored a new version under a key of the
\* index, with the uuid of the version it replaced.
C23_Witness ==
    /\ last.op = "Set" /\ last.err = "none"
    /\ last.keyKnown /\ last.sameUuid
    /\ cidLookup[last.key] = last.cid
    /\ PlainOf(StoredRecord(last.key).uuid) = lastSet[last.key].uuid

\* C24: in every snapshot each record is linked under one key only: two
\* distinct keys of the index never refer to records with the same uuid.
C24_OneKeyPerRecord ==
    \A j, k \in DOMAIN cidLookup :
        j # k => PlainOf(StoredRecord(j).uuid) # PlainOf(StoredRecord(k).uuid)

\* C24 diverging state: with no gateway failure, a Set has stored under a
\* second key the record that Get returned for the first, and the snapshot
\* links the two keys to records with one uuid.
C24_Witness ==
    /\ failures = 0
    /\ last.op = "Set" /\ last.err = "none" /\ ~last.keyKnown
    /\ DOMAIN SnapshotLinks = Keys
    /\ SnapshotLinks = cidLookup
    /\ \A j, k \in Keys :
           PlainOf(StoredRecord(j).uuid) = PlainOf(StoredRecord(k).uuid)

\* Every thread's call has returned.
AllReturned == \A t \in Threads : pc[t] = "idle"

\* A thread is inside the body of an operation, past its Lock().
Inside(t) == pc[t] \in {"locked", "gatewayDone", "unlock"}

\* C25: concurrent Sets on one handle take effect in one total order: once
\* all have returned, the index and the snapshot hold exactly what the
\* Sets that returned nil stored, and a Get or GetSnapshot that starts
\* after a Set has returned nil sees what that Set stored.
C25_SetsAreTotallyOrdered ==
    /\ AllReturned => (cidLookup = effects /\ SnapshotLinks = effects)
    /\ \A t \in Threads :
          (pc[t] = "unlock" /\ call[t].op = "Get"
           /\ call[t].key \in DOMAIN start[t]) =>
              /\ ret[t].err = "none"
              /\ ret[t].cid = start[t][call[t].key]
    /\ \A t \in Threads :
          (pc[t] = "unlock" /\ call[t].op = "GetSnapshot"
           /\ start[t] # NoLinks) =>
              /\ ret[t].cid # NoCID
              /\ \A k \in DOMAIN start[t] :
                     /\ k \in DOMAIN Links(blocks, ret[t].cid)
                     /\ Links(blocks, ret[t].cid)[k] = start[t][k]

\* C25 diverging state: two threads have called Set with two keys at the
\* same time, one has returned nil and the other the error of a failed
\* announcement, and the snapshot links both keys.
C25_Witness ==
    /\ AllReturned
    /\ \E t, u \in Threads :
          /\ t # u
          /\ tcalls[t] = 1 /\ tcalls[u] = 1
          /\ call[t].op = "Set" /\ ret[t].err = "none"
          /\ call[u].op = "Set" /\ ret[u].err = "PublishFailed"
          /\ call[t].key # call[u].key
          /\ call[t].key \in DOMAIN effects
          /\ call[u].key \notin DOMAIN effects
          /\ call[u].key \in DOMAIN SnapshotLinks
    /\ cidLookup = effects

\* C26: read-only operations hold the handle's lock in shared mode: a
\* thread inside Get or GetSnapshot is among the lock's readers, and no Get
\* or GetSnapshot waits for the lock while only a Get or a GetSnapshot
\* holds it.
C26_ReadersShareTheLock ==
    /\ \A t \in Threads :
          (Inside(t) /\ call[t].op \in ReadOnlyOps) => t \in mutex.readers
    /\ \A t, u \in Threads :
          (Inside(t) /\ call[t].op \in ReadOnlyOps
           /\ call[u].op \in ReadOnlyOps) => pc[u] # "lock"

\* C26 diverging state: a thread is inside Get holding the lock as its
\* writer, and a second thread that has called Get waits at Lock().
C26_Witness ==
    \E t, u \in Threads :
        /\ pc[t] = "locked" /\ call[t].op = "Get"
        /\ mutex = Locked(t)
        /\ pc[u] = "lock" /\ call[u].op = "Get"
        /\ ~ENABLED ThreadLock(u)

\* C27: the Listen task fetches a record only while it holds the handle's
\* lock in shared mode: while the fetch is in progress the task is among
\* the lock's readers, nobody (Set, Delete, teardown) holds the lock as
\* writer, and teardown has not zeroed the handle the fetch reads.
C27_FetchHoldsSharedLock ==
    pc["listen"] = "fetching" =>
        /\ "listen" \in mutex.readers
        /\ mutex.writer = "none"
        /\ ~life.zeroed

\* C27 diverging state: the Listen task is inside getRecordFromCID, holding
\* no lock, while a thread is inside Set and holds the lock as writer.
C27_Witness ==
    /\ pc["listen"] = "fetching"
    /\ mutex = Locked("t1")
    /\ pc["t1"] = "gatewayDone" /\ call["t1"].op = "Set"
    /\ "listen" \notin mutex.readers

\* C28: when teardown has returned, with nil or with the error of a step
\* that failed, it has done every step: the context is cancelled, closing
\* the gateway has been tried and the handle is zeroed.
C28_TeardownDoesEveryStep ==
    pc["teardown"] = "returned" =>
        /\ life.ctxDone
        /\ (~life.online \/ life.err = "EndSessionFailed")
        /\ life.zeroed
        /\ cidLookup = NoLinks

\* C28 diverging state: teardown has returned the error of EndSession, the
\* handle is not zeroed and still has its index, and the lock is still
\* held by teardown.
C28_Witness ==
    /\ pc["teardown"] = "returned"
    /\ life.err = "EndSessionFailed"
    /\ life.ctxDone
    /\ ~life.zeroed
    /\ cidLookup # NoLinks
    /\ mutex = Locked("teardown")

\* The Listen task has been started and has neither returned nor panicked.
ListenRuns == pc["listen"] \notin {"idle", "returned", "crashed"}

\* C29: if teardown is called while the Listen task runs, then, unless the
\* terminator is signalled, the Listen task returns and the subscription
\* task stops, and no goroutine panics on the zeroed handle.
C29_TeardownStopsListen ==
    (pc["teardown"] # "idle" /\ ListenRuns)
        ~> (reader.terminator
            \/ (pc["listen"] = "returned" /\ pc["sub"] = "stopped"))

\* C29 diverging state: teardown has returned nil and zeroed the handle,
\* the terminator has not been signalled, the Listen task waits in its
\* select and the subscription task is in its loop.
C29_Witness ==
    /\ pc["teardown"] = "returned" /\ life.err = "none" /\ life.zeroed
    /\ ~reader.terminator
    /\ pc["listen"] = "select"
    /\ pc["sub"] = "next"
    /\ client.pubsubMessages = <<>> /\ client.pubsubErrors = <<>>

\* C30: once the terminator is signalled, the Listen task unsubscribes,
\* closes the record channel and the error channel and returns, whether
\* or not the caller still receives and whether or not messages arrive.
C30_TerminatorStopsListen ==
    reader.terminator
        ~> (/\ pc["listen"] = "returned"
            /\ listener.recClosed /\ listener.errClosed
            /\ ~client.pubsubSub)

\* C30 diverging state: the terminator is signalled, the caller has
\* stopped receiving, and the Listen task waits to send an error on the
\* unbuffered error channel.
C30_Witness ==
    /\ reader.terminator
    /\ ~reader.reading
    /\ pc["listen"] = "sendErr"
    /\ ~ENABLED ListenNext

\* C33: a Set that succeeds on a handle that announces sends exactly one
\* message on the project's topic, the CID the index has for the key after
\* the Set; a Set that succeeds on a handle that does not announce sends
\* nothing.
C33_SetAnnouncesItsCID ==
    [][((\E key \in Keys, s \in Slots, nonce \in Nonces,
            fail \in {"none", "DagGet", "DagPut", "AddLink", "Publish"} :
            CallSet(key, s, fail, nonce)) /\ last'.err = "none") =>
          IF announcing
          THEN published' = Append(published, cidLookup'[last'.key])
          ELSE published' = published]_vars

\* C33 witness: a Set has succeeded on a handle that announces, and the last
\* message on the topic is the CID the index has for the key.
C33_Witness ==
    /\ announcing
    /\ last.op = "Set" /\ last.err = "none"
    /\ published # <<>>
    /\ published[Len(published)] = cidLookup[last.key]
    /\ cidLookup[last.key] = last.cid

\* The errors with which Set turns a record down.
Rejections ==
    {"MaxEntriesExceeded", "AttemptedOverwrite", "RecordHistory",
     "AttemptedUpdate"}

\* C36: a Set that returns MaxEntriesExceeded, AttemptedOverwrite,
\* RecordHistory or AttemptedUpdate has no effect: the snapshot CID, the
\* index, the entry counter, the stored nodes, the pins and the caller's
\* records are as before the call, and nothing is sent on the topic.
C36_RejectedSetHasNoEffect ==
    [][((\E key \in Keys, s \in Slots, nonce \in Nonces,
            fail \in {"none", "DagGet", "DagPut", "AddLink", "Publish"} :
            CallSet(key, s, fail, nonce)) /\ last'.err \in Rejections) =>
          UNCHANGED <<snapshotCID, cidLookup, currentNumEntries, blocks,
                      pins, recs, published>>]_vars

\* C36 witness: on a handle that announces, Set has turned down a record
\* that is no newer than the one stored under the key, and the handle, the
\* store and the topic are in agreement as they were.
C36_Witness ==
    /\ announcing
    /\ last.op = "Set" /\ last.err = "AttemptedUpdate"
    /\ last.key \in DOMAIN cidLookup
    /\ SnapshotLinks = cidLookup
    /\ recs[last.slot].history # <<>>
    /\ recs[last.slot].history[Len(recs[last.slot].history)].text
           # "Set: adding record to IPFS."

\* C38: a Delete that is called again for the key of a Delete that has just
\* returned the error of a failed unpin, and that meets no gateway failure,
\* succeeds: the key is then neither in the snapshot nor in the index, and
\* the entry counter is one less than before the first of the two calls.
C38_DeleteCanBeRetried ==
    [][(/\ last.op = "Delete" /\ last.err = "UnpinFailed"
        /\ CallDelete(last.key, "none")) =>
          /\ last'.err = "none"
          /\ last.key \notin DOMAIN cidLookup'
          /\ last.key \notin DOMAIN Links(blocks', snapshotCID')
          /\ currentNumEntries' = currentNumEntries - 1]_vars

\* C38 diverging state: the Delete called again has failed although no
\* gateway call failed in it; the key is still in the index and has gone
\* from the snapshot.
C38_Witness ==
    /\ last.op = "Delete" /\ last.err = "SnapshotUpdate" /\ ~last.gw
    /\ failures = 1
    /\ last.key \in DOMAIN cidLookup
    /\ last.key \notin DOMAIN SnapshotLinks
    /\ currentNumEntries = Cardinality(DOMAIN cidLookup)

\* C35: teardown keeps the other operations out until the handle is zeroed:
\* from the closing of the gateway to the zeroing of the handle, lock
\* included, no thread holds the handle's lock.
C35_TeardownKeepsLockToTheEnd ==
    pc["teardown"] \in {"unlock", "zero"} =>
        \A t \in Threads : mutex # Locked(t)

\* C35 diverging state: teardown has closed the gateway and released the
\* lock, and is about to zero the handle; a thread has taken the lock and
\* is inside Set.
C35_Witness ==
    /\ pc["teardown"] = "zero"
    /\ ~life.online /\ ~life.zeroed
    /\ mutex = Locked("t1")
    /\ pc["t1"] = "locked" /\ call["t1"].op = "Set"

\* C37: when teardown has returned an error it does not hold the handle's
\* lock, so that a later call on the handle can take it.
C37_FailedTeardownReleasesLock ==
    (pc["teardown"] = "returned" /\ life.err # "none") =>
        mutex # Locked("teardown")

\* C37 diverging state: teardown has returned the error of EndSession and
\* a thread that called Set waits at Lock(), which cannot return.
C37_Witness ==
    /\ pc["teardown"] = "returned" /\ life.err = "EndSessionFailed"
    /\ pc["t1"] = "lock" /\ call["t1"].op = "Set"
    /\ ~LockFree(mutex)
    /\ ~ENABLED ThreadLock("t1")

\* The CIDs of the records that Listen has sent on the record channel.
SentCIDs == {listener.sent[i].rec.previousCID : i \in 1..Len(listener.sent)}

\* C31: however often a CID is announced during one Listen session, Listen
\* sends a record for it on the record channel at most once: no two of the
\* records sent have the same CID.
C31_EachCIDIsSentOnce ==
    \A i, j \in 1..Len(listener.sent) :
        i # j => listener.sent[i].rec.previousCID
                     # listener.sent[j].rec.previousCID

\* C31 witness: the record of a CID has been sent, the CID has been
\* announced again, and the Listen task, at its select, takes the message
\* and goes back to its loop without a fetch.
C31_Witness ==
    /\ pc["listen"] = "select"
    /\ client.pubsubMessages # <<>>
    /\ Head(client.pubsubMessages) \in SentCIDs
    /\ Len(listener.sent) = 1
    /\ ENABLED (ListenReceiveMessage /\ pc'["listen"] = "loop"
                /\ UNCHANGED listener)

\* The announced CID could be fetched now: its node is a record that the
\* handle can read.
Fetchable(cid) == getRecordFromCID(blocks, cipherKey, cid, TRUE).err = "none"

\* C40: Listen passes over an announcement only if the record of its CID
\* has been sent: when the Listen task takes a message from its select and
\* goes back to its loop without a fetch, although the CID could be
\* fetched, a record with that CID is among those sent on the record
\* channel.
C40_OnlyDeliveredCIDsAreSkipped ==
    [][(/\ pc["listen"] = "select" /\ pc'["listen"] = "loop"
        /\ client.pubsubMessages # <<>>
        /\ client'.pubsubMessages = Tail(client.pubsubMessages)
        /\ Fetchable(Head(client.pubsubMessages))) =>
          Head(client.pubsubMessages) \in SentCIDs]_vars

\* C40 diverging state: the one fetch of a CID failed at the gateway and
\* its error has been sent; the CID, which can now be fetched, is in the
\* tracker and is announced again; its record has not been sent, and the
\* Listen task, at its select, passes over the message.
C40_Witness ==
    /\ pc["listen"] = "select"
    /\ failures = 1 /\ listener.erred
    /\ client.pubsubMessages # <<>>
    /\ LET cid == Head(client.pubsubMessages) IN
       /\ cid \in listener.cidTracker
       /\ Fetchable(cid)
       /\ cid \notin SentCIDs
    /\ reader.reading /\ ~reader.terminator

\* C32: an error of a fetch does not end the session. The Listen task that
\* has an error to send sends it on the error channel, once the caller
\* receives, and is then back at the top of its loop, with the subscription
\* and both channels open; it goes nowhere else from there.
C32_ErrorsDoNotEndTheSession ==
    /\ [][(pc["listen"] = "sendErr" /\ pc'["listen"] # "sendErr") =>
             /\ pc'["listen"] = "loop"
             /\ listener'.erred /\ listener'.err = "none"
             /\ client'.pubsubSub /\ ~client'.pubsubStop
             /\ ~listener'.recClosed /\ ~listener'.errClosed
             /\ listener'.cidTracker = listener.cidTracker]_vars
    /\ (pc["listen"] = "sendErr" /\ reader.reading)
           ~> (pc["listen"] = "loop" \/ ~reader.reading)

\* C32 witness: after the error of a failed fetch was sent on the error
\* channel, a CID announced later has been fetched and its record sent on
\* the record channel; the subscription is open.
C32_Witness ==
    /\ listener.sent # <<>>
    /\ listener.sent[Len(listener.sent)].afterError
    /\ failures = 1
    /\ \E cid \in listener.cidTracker : cid \notin SentCIDs /\ Fetchable(cid)
    /\ client.pubsubSub /\ ~client.pubsubStop

\* The subscription is open and has yet to hand over the message with this
\* CID, which a Set on this handle announced after Listen subscribed.
Announcing(cid) ==
    /\ client.pubsubSub
    /\ client.cursor < Len(published)
    /\ published[client.cursor + 1] = cid

\* Listen has sent the record with this CID as PubSub brought it: the
\* record the thread set, with its alias, and with the comment of its
\* collection as the last of its history.
Delivered(cid) ==
    \E i \in 1..Len(listener.sent) :
        LET rec == listener.sent[i].rec IN
        /\ rec.previousCID = cid
        /\ rec.alias = call["t1"].rec.alias
        /\ rec.uuid = call["t1"].rec.uuid
        /\ rec.history[Len(rec.history)].text
               = "collected from peer via pubsub."

\* The one fetch of this CID failed at the gateway: Listen is through with
\* the CID and has sent its error, not its record.
FetchFailed(cid) ==
    /\ cid \in listener.cidTracker
    /\ cid \notin SentCIDs
    /\ listener.erred
    /\ pc["listen"] \in {"loop", "select"}

\* The CID of the record that the thread's Set has put in the store.
SetCID == pending["t1"].cid

C39_ChannelsAreClosedOnce ==
    client.misuse = "none"

\* C39 diverging state: Listen was called twice and the terminator
\* signalled; the first Listen task has closed pubsubStop in Unsubscribe,
\* and the second has panicked in its own Unsubscribe, closing the same
\* channel.
C39_Witness ==
    /\ client.subscriptions = 2
    /\ reader.terminator
    /\ pc["listen"] \in {"stopping", "closing", "returned"}
    /\ pc["listen2"] = "crashed"
    /\ client.pubsubStop
    /\ client.misuse = "close of closed channel"
    /\ pc["teardown"] = "idle"

\* A second diverging state of C39: Unsubscribe, called by the first Listen
\* task, has closed the client's channels after the second subscription
\* task stopped, and the first subscription task, which Unsubscribe did not
\* wait for, has panicked sending its message on pubsubMessages.
SendOnClosedChannel ==
    /\ client.subscriptions = 2
    /\ client.closed
    /\ pc["sub"] = "crashed" /\ pc["sub2"] = "stopped"
    /\ client.misuse = "send on closed channel"

====
